---- MODULE Spec2Model ----
(***************************************************************************)
(* A model of the rate-limited embedding layer of the transcript backend:  *)
(*   backend/utils/rate_limiter.py        RateLimiter, get_rate_limiter    *)
(*   backend/services/langchain_service.py get_embedding,                  *)
(*                                         get_embeddings_batch            *)
(*   backend/services/embedding_service.py get_or_create_embedding         *)
(*                                                                         *)
(* Time is counted in tenths of a second (time.time() and asyncio.sleep    *)
(* work on floats; every literal of the code is a multiple of 0.1 s).      *)
(* Threads are the worker threads FastAPI runs the synchronous endpoints   *)
(* on; each runs wait_for_capacity in an event loop of its own             *)
(* (asyncio.run), so a sleeping call does not hold back another thread.    *)
(***************************************************************************)
EXTENDS Integers, Sequences, FiniteSets, TLC

\* ------------------------------------------------------------------ bounds
NThreads == 2          \* worker threads of the concurrent specifications
MaxCalls == 3          \* limiter calls started in one behaviour of Spec
MaxTicks == 1          \* clock advances other than the sleeps of the code
MaxEmbedCalls == 2     \* get_or_create_embedding calls in one behaviour of SpecEmbed
MaxBatch == 201        \* the largest batch get_embeddings_batch is called with
MaxCorpus == 3         \* records in the corpus of SpecSearch
MaxLimit == 3          \* the largest limit hybrid_search is called with

\* ------------------------------------------------- constants of the code
Window == 600          \* 60 s: the trailing window of both histories
Epsilon == 1           \* + 0.1 s added to the request wait and the token wait
MaxTokenWait == 50     \* min(wait_time, 5.0)
OneSecond == 10        \* second_ago = current_time - 1
SecondWait == 11       \* 1.1 - (current_time - int(current_time))
DefaultTokensPerMinute == 1000000
DefaultRequestsPerMinute == 3000

Threads == 1..NThreads

\* How far the clock may advance in one Tick (tenths of a second): between two
\* statements of a running call, into the next seconds, past the window.
TickSteps == {1, 20, 601}

\* RateLimiter(tokens_per_minute, requests_per_minute, tokens_per_second) as the
\* concurrent specification constructs it. An Optional[int] is <<>> for None
\* and <<n>> for n: the last one leaves tokens_per_second to be derived.
Configs ==
  { [tpm |-> 2, rpm |-> 2, tps |-> <<2>>] }

\* The estimates and usages passed to the limiter, per configuration: below,
\* at and above the budgets.
Estimates(tpm) == {tpm, tpm + 1}

VARIABLES
  clock,            \* time.time(), in tenths of a second
  ticks,            \* how often Tick advanced the clock
  limiters,         \* every RateLimiter instance constructed so far
  _rate_limiter,    \* the module global: 0 is None, else an index of limiters
  th,               \* per thread: the frame of its running limiter call
  ref,              \* per thread: the instance its caller holds (0: none yet)
  calls,            \* limiter calls started so far
  max_est,          \* the largest estimate or usage passed to the limiter so far
  transcript,       \* the Transcript object get_or_create_embedding is given
  row,              \* the row of that transcript as the database holds it
  session,          \* the SQLAlchemy session: <<>> usable, <<msg>> after a failed commit
  emb,              \* the frame of the running get_or_create_embedding call
  bat,              \* the frame of the running get_embeddings_batch call
  hs,               \* the frame of the running hybrid_search call
  pf,               \* the last call of a function of text_cleaner.py and its result
  up                \* the frame of the running upload_transcript request

vars == <<clock, ticks, limiters, _rate_limiter, th, ref, calls, max_est,
          transcript, row, session, emb, bat, hs, pf, up>>

\* What the limiter calls of the threads leave alone.
embVars == <<transcript, row, session, emb, bat, hs, pf, up>>

\* ------------------------------------------------------------- helpers
Max(a, b) == IF a >= b THEN a ELSE b
Min(a, b) == IF a <= b THEN a ELSE b

RECURSIVE SumTokens(_)
\* sum(tokens for _, tokens in history)
SumTokens(h) == IF h = <<>> THEN 0 ELSE Head(h)[2] + SumTokens(Tail(h))

RECURSIVE SumTokensSince(_, _)
\* sum(tokens for ts, tokens in history if ts >= since)
SumTokensSince(h, since) ==
  IF h = <<>> THEN 0
  ELSE (IF Head(h)[1] >= since THEN Head(h)[2] ELSE 0) + SumTokensSince(Tail(h), since)

\* ------------------------------------------------- RateLimiter.__init__
\* int((tokens_per_minute * 0.8) / 60) when tokens_per_second is None
DerivedTokensPerSecond(tpm) == (tpm * 8) \div 600

RateLimiterNew(tpm, rpm, tps) ==
  [ tokens_per_minute   |-> tpm,
    requests_per_minute |-> rpm,
    tokens_per_second   |-> IF tps = <<>> THEN DerivedTokensPerSecond(tpm) ELSE tps[1],
    token_history       |-> <<>>,
    request_history     |-> <<>>,
    lock                |-> 0 ]

\* The frame of one limiter call of a thread. susp lists the checks the call
\* suspended in, adm_total the trailing-window token sum right after its
\* admission (-1 before), both kept for the properties only.
Frame(pc, self, est) ==
  [ pc |-> pc, self |-> self, est |-> est, ct |-> 0, wake |-> 0,
    susp |-> <<>>, adm_total |-> -1 ]

IdleFrame == Frame("idle", 0, 0)

\* The result of one step of a call: the instance, the frame, the clock.
Res(lim, loc, clk) == [lim |-> lim, loc |-> loc, clk |-> clk]
Goto(loc, pc) == [loc EXCEPT !.pc = pc]

\* ------------------------------------- RateLimiter.wait_for_capacity
\* with self._thread_lock:                (the lock is taken)
WfcAcquireStep(lim, loc, clk, t) ==
  Res([lim EXCEPT !.lock = t], Goto(loc, "wfc_time"), clk)

\*     current_time = time.time()         (and the with block ends)
WfcTimeStep(lim, loc, clk) ==
  Res([lim EXCEPT !.lock = 0], [loc EXCEPT !.pc = "prune_tok", !.ct = clk], clk)

\* minute_ago = current_time - 60
MinuteAgo(loc) == loc.ct - Window

\* while self.token_history and self.token_history[0][0] < minute_ago:
PruneTokTestStep(lim, loc, clk) ==
  IF lim.token_history # <<>> /\ Head(lim.token_history)[1] < MinuteAgo(loc)
  THEN Res(lim, Goto(loc, "prune_tok_pop"), clk)
  ELSE Res(lim, Goto(loc, "prune_req"), clk)

\*     self.token_history.popleft()       (IndexError on an empty deque)
PruneTokPopStep(lim, loc, clk) ==
  IF lim.token_history = <<>>
  THEN Res(lim, Goto(loc, "error"), clk)
  ELSE Res([lim EXCEPT !.token_history = Tail(@)], Goto(loc, "prune_tok"), clk)

\* while self.request_history and self.request_history[0] < minute_ago:
PruneReqTestStep(lim, loc, clk) ==
  IF lim.request_history # <<>> /\ Head(lim.request_history) < MinuteAgo(loc)
  THEN Res(lim, Goto(loc, "prune_req_pop"), clk)
  ELSE Res(lim, Goto(loc, "req_check"), clk)

\*     self.request_history.popleft()
PruneReqPopStep(lim, loc, clk) ==
  IF lim.request_history = <<>>
  THEN Res(lim, Goto(loc, "error"), clk)
  ELSE Res([lim EXCEPT !.request_history = Tail(@)], Goto(loc, "prune_req"), clk)

ReqCheckStep_lenient(lim, loc, clk) ==
  IF Len(lim.request_history) > lim.requests_per_minute
  THEN Res(lim, Goto(loc, "req_oldest"), clk)
  ELSE Res(lim, Goto(loc, "tok_check"), clk)

\* if len(self.request_history) >= self.requests_per_minute:
ReqCheckStep(lim, loc, clk) ==
  IF Len(lim.request_history) >= lim.requests_per_minute
  THEN Res(lim, Goto(loc, "req_oldest"), clk)
  ELSE Res(lim, Goto(loc, "tok_check"), clk)

\* wait_time = 60 - (current_time - oldest_request) + 0.1
RequestWaitTime(loc, oldest_request) == Window - (loc.ct - oldest_request) + Epsilon

\*     oldest_request = self.request_history[0]   (IndexError when empty)
\*     wait_time = ...
\*     if wait_time > 0: await asyncio.sleep(wait_time)
ReqOldestStep(lim, loc, clk) ==
  IF lim.request_history = <<>>
  THEN Res(lim, Goto(loc, "error"), clk)
  ELSE LET wait_time == RequestWaitTime(loc, Head(lim.request_history))
       IN IF wait_time > 0
          THEN Res(lim, [loc EXCEPT !.pc = "req_sleep", !.wake = clk + wait_time,
                                    !.susp = Append(@, "req")], clk)
          ELSE Res(lim, Goto(loc, "tok_check"), clk)

\*         (the sleep returns)  current_time = time.time()
ReqWakeStep(lim, loc, clk) ==
  LET now == Max(clk, loc.wake)
  IN Res(lim, [loc EXCEPT !.pc = "reprune_req", !.ct = now, !.wake = 0], now)

\*         while self.request_history and self.request_history[0] < current_time - 60:
RepruneReqTestStep(lim, loc, clk) ==
  IF lim.request_history # <<>> /\ Head(lim.request_history) < loc.ct - Window
  THEN Res(lim, Goto(loc, "reprune_req_pop"), clk)
  ELSE Res(lim, Goto(loc, "tok_check"), clk)

\*             self.request_history.popleft()
RepruneReqPopStep(lim, loc, clk) ==
  IF lim.request_history = <<>>
  THEN Res(lim, Goto(loc, "error"), clk)
  ELSE Res([lim EXCEPT !.request_history = Tail(@)], Goto(loc, "reprune_req"), clk)

\* total_tokens_last_minute + estimated_tokens > self.tokens_per_minute
OverMinuteBudget(lim, loc) ==
  SumTokens(lim.token_history) + loc.est > lim.tokens_per_minute

\* total_tokens_last_minute = sum(tokens for _, tokens in self.token_history)
\* if total_tokens_last_minute + estimated_tokens > self.tokens_per_minute:
TokCheckStep(lim, loc, clk) ==
  IF OverMinuteBudget(lim, loc)
  THEN Res(lim, Goto(loc, "tok_nonempty"), clk)
  ELSE Res(lim, Goto(loc, "sec_check"), clk)

\*     if self.token_history:
TokNonEmptyStep(lim, loc, clk) ==
  IF lim.token_history # <<>>
  THEN Res(lim, Goto(loc, "tok_oldest"), clk)
  ELSE Res(lim, Goto(loc, "sec_check"), clk)

\* wait_time = 60 - (current_time - oldest_token_time) + 0.1, capped at 5.0
TokenWaitTime(loc, oldest_token_time) ==
  Min(Window - (loc.ct - oldest_token_time) + Epsilon, MaxTokenWait)

\*         oldest_token_time = self.token_history[0][0]  (IndexError when empty)
\*         wait_time = ...
\*         if wait_time > 0: wait_time = min(wait_time, 5.0); await asyncio.sleep(wait_time)
TokOldestStep(lim, loc, clk) ==
  IF lim.token_history = <<>>
  THEN Res(lim, Goto(loc, "error"), clk)
  ELSE LET wait_time == TokenWaitTime(loc, Head(lim.token_history)[1])
       IN IF wait_time > 0
          THEN Res(lim, [loc EXCEPT !.pc = "tok_sleep", !.wake = clk + wait_time,
                                    !.susp = Append(@, "tok")], clk)
          ELSE Res(lim, Goto(loc, "sec_check"), clk)

\*             (the sleep returns; current_time is not read again)
TokWakeStep(lim, loc, clk) ==
  Res(lim, [loc EXCEPT !.pc = "sec_check", !.wake = 0], Max(clk, loc.wake))

\* tokens_last_second + estimated_tokens > self.tokens_per_second
OverSecondBudget(lim, loc) ==
  SumTokensSince(lim.token_history, loc.ct - OneSecond) + loc.est > lim.tokens_per_second

\* wait_time = 1.1 - (current_time - int(current_time))
SecondWaitTime(loc) == SecondWait - (loc.ct % OneSecond)

\* second_ago = current_time - 1
\* tokens_last_second = sum(tokens for ts, tokens in self.token_history if ts >= second_ago)
\* if tokens_last_second + estimated_tokens > self.tokens_per_second:
\*     wait_time = ...
\*     if wait_time > 0: await asyncio.sleep(wait_time)
SecCheckStep(lim, loc, clk) ==
  IF OverSecondBudget(lim, loc) /\ SecondWaitTime(loc) > 0
  THEN Res(lim, [loc EXCEPT !.pc = "sec_sleep", !.wake = clk + SecondWaitTime(loc),
                            !.susp = Append(@, "sec")], clk)
  ELSE Res(lim, Goto(loc, "append_tok"), clk)

\*         (the sleep returns)
SecWakeStep(lim, loc, clk) ==
  Res(lim, [loc EXCEPT !.pc = "append_tok", !.wake = 0], Max(clk, loc.wake))

\* current_time = time.time()
\* self.token_history.append((current_time, estimated_tokens))
AppendTokStep(lim, loc, clk) ==
  LET hist == Append(lim.token_history, <<clk, loc.est>>)
  IN Res([lim EXCEPT !.token_history = hist],
         [loc EXCEPT !.pc = "append_req", !.ct = clk,
                     !.adm_total = SumTokensSince(hist, clk - Window)],
         clk)

\* self.request_history.append(current_time)
AppendReqStep(lim, loc, clk) ==
  Res([lim EXCEPT !.request_history = Append(@, loc.ct)], Goto(loc, "done"), clk)

\* ------------------------------------------ RateLimiter.record_usage
\* current_time = time.time()
RuTimeStep(lim, loc, clk) ==
  Res(lim, [loc EXCEPT !.pc = "ru_acquire", !.ct = clk], clk)

\* with self._thread_lock:
RuAcquireStep(lim, loc, clk, t) ==
  Res([lim EXCEPT !.lock = t], Goto(loc, "ru_append"), clk)

RuAppendStep_replacing(lim, loc, clk) ==
  Res([lim EXCEPT !.token_history =
                    IF @ = <<>> THEN <<<<loc.ct, loc.est>>>>
                    ELSE Append(SubSeq(@, 1, Len(@) - 1), <<loc.ct, loc.est>>),
                  !.lock = 0],
      Goto(loc, "done"), clk)

\*     self.token_history.append((current_time, tokens_used))
RuAppendStep(lim, loc, clk) ==
  Res([lim EXCEPT !.token_history = Append(@, <<loc.ct, loc.est>>), !.lock = 0],
      Goto(loc, "done"), clk)

\* --------------------------------------- the calls as steps of a thread
At(t, pc) == th[t].pc = pc
Self(t) == limiters[th[t].self]

\* The thread's call takes the step r.
Take(t, r) ==
  /\ limiters' = [limiters EXCEPT ![th[t].self] = r.lim]
  /\ th' = [th EXCEPT ![t] = r.loc]
  /\ clock' = r.clk
  /\ UNCHANGED <<ticks, _rate_limiter, ref, calls, max_est>>
  /\ UNCHANGED embVars

WfcAcquire(t) == At(t, "wfc_acquire") /\ Self(t).lock = 0
                 /\ Take(t, WfcAcquireStep(Self(t), th[t], clock, t))
WfcTime(t) == At(t, "wfc_time") /\ Take(t, WfcTimeStep(Self(t), th[t], clock))
PruneTokTest(t) == At(t, "prune_tok") /\ Take(t, PruneTokTestStep(Self(t), th[t], clock))
PruneTokPop(t) == At(t, "prune_tok_pop") /\ Take(t, PruneTokPopStep(Self(t), th[t], clock))
PruneReqTest(t) == At(t, "prune_req") /\ Take(t, PruneReqTestStep(Self(t), th[t], clock))
PruneReqPop(t) == At(t, "prune_req_pop") /\ Take(t, PruneReqPopStep(Self(t), th[t], clock))
ReqCheck(t) == At(t, "req_check") /\ Take(t, ReqCheckStep(Self(t), th[t], clock))
ReqOldest(t) == At(t, "req_oldest") /\ Take(t, ReqOldestStep(Self(t), th[t], clock))
ReqWake(t) == At(t, "req_sleep") /\ Take(t, ReqWakeStep(Self(t), th[t], clock))
RepruneReqTest(t) == At(t, "reprune_req") /\ Take(t, RepruneReqTestStep(Self(t), th[t], clock))
RepruneReqPop(t) == At(t, "reprune_req_pop") /\ Take(t, RepruneReqPopStep(Self(t), th[t], clock))
TokCheck(t) == At(t, "tok_check") /\ Take(t, TokCheckStep(Self(t), th[t], clock))
TokNonEmpty(t) == At(t, "tok_nonempty") /\ Take(t, TokNonEmptyStep(Self(t), th[t], clock))
TokOldest(t) == At(t, "tok_oldest") /\ Take(t, TokOldestStep(Self(t), th[t], clock))
TokWake(t) == At(t, "tok_sleep") /\ Take(t, TokWakeStep(Self(t), th[t], clock))
SecCheck(t) == At(t, "sec_check") /\ Take(t, SecCheckStep(Self(t), th[t], clock))
SecWake(t) == At(t, "sec_sleep") /\ Take(t, SecWakeStep(Self(t), th[t], clock))
AppendTok(t) == At(t, "append_tok") /\ Take(t, AppendTokStep(Self(t), th[t], clock))
AppendReq(t) == At(t, "append_req") /\ Take(t, AppendReqStep(Self(t), th[t], clock))
RuTime(t) == At(t, "ru_time") /\ Take(t, RuTimeStep(Self(t), th[t], clock))
RuAcquire(t) == At(t, "ru_acquire") /\ Self(t).lock = 0
                /\ Take(t, RuAcquireStep(Self(t), th[t], clock, t))
RuAppend(t) == At(t, "ru_append") /\ Take(t, RuAppendStep(Self(t), th[t], clock))

\* A thread between two calls: before its first ("idle"), after a return
\* ("done"), after a raise ("error").
Free(t) == th[t].pc \in {"idle", "done", "error"}

\* A thread calls rate_limiter.wait_for_capacity(e) on the instance it holds.
StartWfc(t, e) ==
  /\ Free(t) /\ ref[t] # 0 /\ calls < MaxCalls
  /\ th' = [th EXCEPT ![t] = Frame("wfc_acquire", ref[t], e)]
  /\ calls' = calls + 1
  /\ max_est' = Max(max_est, e)
  /\ UNCHANGED <<clock, ticks, limiters, _rate_limiter, ref>>
  /\ UNCHANGED embVars

\* A thread calls rate_limiter.record_usage(n) on the instance it holds.
StartRu(t, n) ==
  /\ Free(t) /\ ref[t] # 0 /\ calls < MaxCalls
  /\ th' = [th EXCEPT ![t] = Frame("ru_time", ref[t], n)]
  /\ calls' = calls + 1
  /\ max_est' = Max(max_est, n)
  /\ UNCHANGED <<clock, ticks, limiters, _rate_limiter, ref>>
  /\ UNCHANGED embVars

\* A thread that is not in the middle of the statements of a call: it is
\* between two calls or asleep in one.
Resting(t) ==
  th[t].pc \in {"idle", "done", "error", "req_sleep", "tok_sleep", "sec_sleep"}

\* Time passes: a tenth of a second at any point, a second or more only while
\* no thread is between two statements of a call (the statements of a call
\* take no such time; its sleeps are steps of their own).
Tick(d) ==
  /\ ticks < MaxTicks
  /\ d >= OneSecond => \A t \in Threads : Resting(t)
  /\ clock' = clock + d
  /\ ticks' = ticks + 1
  /\ UNCHANGED <<limiters, _rate_limiter, th, ref, calls, max_est>>
  /\ UNCHANGED embVars

LimiterStep(t) ==
  \/ WfcAcquire(t) \/ WfcTime(t)
  \/ PruneTokTest(t) \/ PruneTokPop(t) \/ PruneReqTest(t) \/ PruneReqPop(t)
  \/ ReqCheck(t) \/ ReqOldest(t) \/ ReqWake(t) \/ RepruneReqTest(t) \/ RepruneReqPop(t)
  \/ TokCheck(t) \/ TokNonEmpty(t) \/ TokOldest(t) \/ TokWake(t)
  \/ SecCheck(t) \/ SecWake(t)
  \/ AppendTok(t) \/ AppendReq(t)
  \/ RuTime(t) \/ RuAcquire(t) \/ RuAppend(t)

\* ------------------------------------------------- get_rate_limiter
\* RateLimiter() with the defaults of __init__
DefaultRateLimiter ==
  RateLimiterNew(DefaultTokensPerMinute, DefaultRequestsPerMinute, <<>>)

\* A thread calls get_rate_limiter().
StartGrl(t) ==
  /\ Free(t) /\ calls < MaxCalls
  /\ th' = [th EXCEPT ![t] = Frame("grl_test", 0, 0)]
  /\ calls' = calls + 1
  /\ UNCHANGED <<clock, ticks, limiters, _rate_limiter, ref, max_est>>
  /\ UNCHANGED embVars

\* if _rate_limiter is None:
GrlTest(t) ==
  /\ At(t, "grl_test")
  /\ th' = [th EXCEPT ![t].pc = IF _rate_limiter = 0 THEN "grl_new" ELSE "grl_return"]
  /\ UNCHANGED <<clock, ticks, limiters, _rate_limiter, ref, calls, max_est>>
  /\ UNCHANGED embVars

\*     RateLimiter()                      (the instance is constructed)
GrlNew(t) ==
  /\ At(t, "grl_new")
  /\ limiters' = Append(limiters, DefaultRateLimiter)
  /\ th' = [th EXCEPT ![t].pc = "grl_store", ![t].self = Len(limiters) + 1]
  /\ UNCHANGED <<clock, ticks, _rate_limiter, ref, calls, max_est>>
  /\ UNCHANGED embVars

\*     _rate_limiter = ...                (and the global is assigned)
GrlStore(t) ==
  /\ At(t, "grl_store")
  /\ _rate_limiter' = th[t].self
  /\ th' = [th EXCEPT ![t].pc = "grl_return"]
  /\ UNCHANGED <<clock, ticks, limiters, ref, calls, max_est>>
  /\ UNCHANGED embVars

\* return _rate_limiter                   (the global is read again)
GrlReturn(t) ==
  /\ At(t, "grl_return")
  /\ ref' = [ref EXCEPT ![t] = _rate_limiter]
  /\ th' = [th EXCEPT ![t].pc = "done", ![t].self = _rate_limiter]
  /\ UNCHANGED <<clock, ticks, limiters, _rate_limiter, calls, max_est>>
  /\ UNCHANGED embVars

GrlStep(t) == GrlTest(t) \/ GrlNew(t) \/ GrlStore(t) \/ GrlReturn(t)

\* ------------------------------------------------------------------------
\* Texts are sequences of one-character strings. An Optional[str] is <<>> for
\* None and <<s>> for the string s.
Str(s) == <<s>>
NoStr == <<>>

\* str.strip() and str.split() whitespace
Whitespace == {" ", "\n", "\r", "\t"}

RECURSIVE LStrip(_)
LStrip(s) == IF s # <<>> /\ Head(s) \in Whitespace THEN LStrip(Tail(s)) ELSE s

RECURSIVE RStrip(_)
RStrip(s) ==
  IF s # <<>> /\ s[Len(s)] \in Whitespace THEN RStrip(SubSeq(s, 1, Len(s) - 1)) ELSE s

\* s.strip()
Strip(s) == LStrip(RStrip(s))

\* sub in s
Contains(s, sub) ==
  \E i \in 1..(Len(s) - Len(sub) + 1) : SubSeq(s, i, i + Len(sub) - 1) = sub

UpperLetters ==
  <<"A", "B", "C", "D", "E", "F", "G", "H", "I", "J", "K", "L", "M",
    "N", "O", "P", "Q", "R", "S", "T", "U", "V", "W", "X", "Y", "Z">>
LowerLetters ==
  <<"a", "b", "c", "d", "e", "f", "g", "h", "i", "j", "k", "l", "m",
    "n", "o", "p", "q", "r", "s", "t", "u", "v", "w", "x", "y", "z">>
LetterIndex(c, letters) == CHOOSE i \in 1..Len(letters) : letters[i] = c
IsUpperLetter(c) == \E i \in 1..Len(UpperLetters) : UpperLetters[i] = c
IsLowerLetter(c) == \E i \in 1..Len(LowerLetters) : LowerLetters[i] = c

\* str.lower() and str.upper(), character by character (ASCII letters)
LowerChar(c) == IF IsUpperLetter(c) THEN LowerLetters[LetterIndex(c, UpperLetters)] ELSE c
UpperChar(c) == IF IsLowerLetter(c) THEN UpperLetters[LetterIndex(c, LowerLetters)] ELSE c
Lower(s) == [i \in 1..Len(s) |-> LowerChar(s[i])]
Upper(s) == [i \in 1..Len(s) |-> UpperChar(s[i])]

RECURSIVE NormalizeNewlines(_)
\* raw_text.replace("\r\n", "\n").replace("\r", "\n")
NormalizeNewlines(s) ==
  IF s = <<>> THEN <<>>
  ELSE IF Head(s) = "\r"
       THEN IF Len(s) >= 2 /\ s[2] = "\n"
            THEN <<"\n">> \o NormalizeNewlines(Tail(Tail(s)))
            ELSE <<"\n">> \o NormalizeNewlines(Tail(s))
       ELSE <<Head(s)>> \o NormalizeNewlines(Tail(s))

RECURSIVE SplitLines(_, _)
\* raw_text.split("\n"): cur is the line collected so far
SplitLines(s, cur) ==
  IF s = <<>> THEN <<cur>>
  ELSE IF Head(s) = "\n" THEN <<cur>> \o SplitLines(Tail(s), <<>>)
       ELSE SplitLines(Tail(s), Append(cur, Head(s)))

RECURSIVE JoinLines(_)
\* "\n".join(lines)
JoinLines(lines) ==
  IF lines = <<>> THEN <<>>
  ELSE IF Len(lines) = 1 THEN lines[1]
       ELSE lines[1] \o <<"\n">> \o JoinLines(Tail(lines))

RECURSIVE SplitWords(_, _)
\* s.split(): the runs of non-whitespace characters; cur is the run so far
SplitWords(s, cur) ==
  IF s = <<>> THEN (IF cur = <<>> THEN <<>> ELSE <<cur>>)
  ELSE IF Head(s) \in Whitespace
       THEN (IF cur = <<>> THEN <<>> ELSE <<cur>>) \o SplitWords(Tail(s), <<>>)
       ELSE SplitWords(Tail(s), Append(cur, Head(s)))

\* s.find(sub): the 0-based index of the first occurrence, -1 without one
Find(s, sub) ==
  IF Contains(s, sub)
  THEN (CHOOSE i \in 1..(Len(s) - Len(sub) + 1) :
          /\ SubSeq(s, i, i + Len(sub) - 1) = sub
          /\ \A j \in 1..(i - 1) : SubSeq(s, j, j + Len(sub) - 1) # sub) - 1
  ELSE -1

\* s[a:b] for 0 <= a and 0 <= b
Slice(s, a, b) == SubSeq(s, a + 1, Min(b, Len(s)))

Ellipsis == <<".", ".", ".">>

\* ------------------------------------------------ text_cleaner.get_snippet
RECURSIVE FirstWordPos(_, _)
\* for word in words: pos = text_lower.find(word); if pos != -1: break
FirstWordPos(text_lower, words) ==
  IF words = <<>> THEN -1
  ELSE IF Find(text_lower, Head(words)) # -1 THEN Find(text_lower, Head(words))
       ELSE FirstWordPos(text_lower, Tail(words))

\* pos after the search for the whole query and, without it, for its words
SnippetPos(text, query) ==
  IF Find(Lower(text), Lower(query)) # -1 THEN Find(Lower(text), Lower(query))
  ELSE FirstWordPos(Lower(text), SplitWords(Lower(query), <<>>))

\* the window one character wider on each side
get_snippet_wide(text, query, context_chars) ==
  LET pos == SnippetPos(text, query)
      start == Max(0, pos - context_chars - 1)
      end == Min(Len(text), pos + Len(query) + context_chars + 1)
  IN IF pos = -1 THEN Slice(text, 0, context_chars * 2) \o Ellipsis
     ELSE (IF start > 0 THEN Ellipsis ELSE <<>>)
            \o Slice(text, start, end)
            \o (IF end < Len(text) THEN Ellipsis ELSE <<>>)

get_snippet(text, query, context_chars) ==
  LET pos == SnippetPos(text, query)
      start == Max(0, pos - context_chars)
      end == Min(Len(text), pos + Len(query) + context_chars)
  IN IF pos = -1 THEN Slice(text, 0, context_chars * 2) \o Ellipsis
     ELSE (IF start > 0 THEN Ellipsis ELSE <<>>)
            \o Slice(text, start, end)
            \o (IF end < Len(text) THEN Ellipsis ELSE <<>>)

\* ------------------------------------------- text_cleaner._sanitize_pii
Digits == {"0", "1", "2", "3", "4", "5", "6", "7", "8", "9"}
IsDigit(c) == c \in Digits
\* \w, on the characters the texts of the model hold
IsWord(c) == IsDigit(c) \/ IsUpperLetter(c) \/ IsLowerLetter(c) \/ c = "_"
NumSeparators == {".", ","}
NumToken == <<"<", "N", "U", "M", ">">>

RECURSIVE DigitRunEnd(_, _)
\* the last index of the run of digits that starts at i
DigitRunEnd(s, i) ==
  IF i + 1 <= Len(s) /\ IsDigit(s[i + 1]) THEN DigitRunEnd(s, i + 1) ELSE i

RECURSIVE NumberEnd(_, _)
\* the end of the match of NUMBER_REGEX  \b\d+(?:[\.\,]\d+)*\b  that starts at
\* the digit at i, 0 when there is none: the longest chain of digit runs joined
\* by one separator each that ends at a word boundary
NumberEnd(s, i) ==
  LET j == DigitRunEnd(s, i)
      more == IF j + 2 <= Len(s) /\ s[j + 1] \in NumSeparators /\ IsDigit(s[j + 2])
              THEN NumberEnd(s, j + 2) ELSE 0
  IN IF more # 0 THEN more
     ELSE IF j = Len(s) \/ ~IsWord(s[j + 1]) THEN j ELSE 0

RECURSIVE ReplaceNumbersFrom(_, _)
\* re.sub(NUMBER_REGEX, "<NUM>", text), scanning from index i
ReplaceNumbersFrom(s, i) ==
  IF i > Len(s) THEN <<>>
  ELSE IF /\ IsDigit(s[i])
          /\ (i = 1 \/ ~IsWord(s[i - 1]))
          /\ NumberEnd(s, i) # 0
       THEN NumToken \o ReplaceNumbersFrom(s, NumberEnd(s, i) + 1)
       ELSE <<s[i]>> \o ReplaceNumbersFrom(s, i + 1)

\* _replace_dates_and_numbers, on texts without "/" and without month names
_replace_dates_and_numbers(s) == ReplaceNumbersFrom(s, 1)

\* _sanitize_pii. The texts of the model hold no "@", "-", "+", no run of nine
\* digits and blanks and none of the words of the address and name patterns, so
\* the RUT, e-mail, phone, address and name substitutions leave them as they
\* are; the last substitution, of dates and numbers, is the one that acts.
_sanitize_pii(s) == _replace_dates_and_numbers(s)

\* ------------------------------------------ text_cleaner.clean_transcript
SistemaMarker == <<"S", "I", "S", "T", "E", "M", "A", ":">>
FinMarker ==
  <<"[", "F", "I", "N", " ", "D", "E", " ", "L", "A", " ",
    "L", "L", "A", "M", "A", "D", "A", "]">>

\* the end-of-call marker looked for in the line as it is written
IsSystemLine_exact(line) == Contains(line, SistemaMarker) \/ Contains(line, FinMarker)

\* if "SISTEMA:" in line or "[FIN DE LA LLAMADA]" in line.upper():
IsSystemLine(line) == Contains(line, SistemaMarker) \/ Contains(Upper(line), FinMarker)

\* \[\d{2}:\d{2}:\d{2}\]  matches the ten characters s
IsStamp(s) ==
  /\ s[1] = "[" /\ IsDigit(s[2]) /\ IsDigit(s[3])
  /\ s[4] = ":" /\ IsDigit(s[5]) /\ IsDigit(s[6])
  /\ s[7] = ":" /\ IsDigit(s[8]) /\ IsDigit(s[9]) /\ s[10] = "]"

\* (AGENTE|CLIENTE)
Speakers ==
  { <<"A", "G", "E", "N", "T", "E">>, <<"C", "L", "I", "E", "N", "T", "E">> }

\* rest starts with the speaker and ":", whatever the case (re.IGNORECASE)
StartsWithSpeaker(rest, speaker) ==
  /\ Len(rest) >= Len(speaker) + 1
  /\ Upper(SubSeq(rest, 1, Len(speaker))) = speaker
  /\ rest[Len(speaker) + 1] = ":"

\* m_speaker = re.match(r"\[\d{2}:\d{2}:\d{2}\]\s*(AGENTE|CLIENTE):\s*(.*)", line,
\*                      flags=re.IGNORECASE):  <<>> without match, else the
\* groups (speaker, content)
MatchSpeaker(line) ==
  IF Len(line) >= 10 /\ IsStamp(SubSeq(line, 1, 10))
  THEN LET rest == LStrip(SubSeq(line, 11, Len(line)))
       IN IF \E sp \in Speakers : StartsWithSpeaker(rest, sp)
          THEN LET sp == CHOOSE s \in Speakers : StartsWithSpeaker(rest, s)
               IN << [ speaker |-> SubSeq(rest, 1, Len(sp)),
                       content |-> LStrip(SubSeq(rest, Len(sp) + 2, Len(rest))) ] >>
          ELSE <<>>
  ELSE <<>>

\* f"{speaker.upper()}: {content_sanitized.strip()}"
SpeakerLine(m) ==
  Upper(m.speaker) \o <<":", " ">> \o Strip(_sanitize_pii(m.content))

RECURSIVE CleanLines(_)
\* the loop over the lines: strip, drop the empty and the system lines, keep
\* speaker and sanitised content of a "[hh:mm:ss] AGENTE|CLIENTE:" line and
\* sanitise any other line as a whole
CleanLines(lines) ==
  IF lines = <<>> THEN <<>>
  ELSE LET line == Strip(Head(lines))
       IN IF line = <<>> \/ IsSystemLine(line)
          THEN CleanLines(Tail(lines))
          ELSE IF MatchSpeaker(line) # <<>>
               THEN <<SpeakerLine(MatchSpeaker(line)[1])>> \o CleanLines(Tail(lines))
               ELSE <<_sanitize_pii(line)>> \o CleanLines(Tail(lines))

\* clean_transcript(raw_text), raw_text an Optional[str]; the result is a str
clean_transcript(raw_text) ==
  IF raw_text = NoStr \/ raw_text[1] = <<>> THEN <<>>
  ELSE JoinLines(CleanLines(SplitLines(NormalizeNewlines(raw_text[1]), <<>>)))

\* ------------------------------------------------------------------------
\* Transcript.embedding, get_embedding_array, set_embedding (database.py).
\* A vector is one of Vectors; the column holds nothing, the JSON text of a
\* vector (SQLite fallback) or the list of a vector (pgvector).
Vectors == {"v1", "v2"}
NoEmbedding == [kind |-> "none", val |-> "-"]
JsonText(v) == [kind |-> "json", val |-> v]
ListValue(v) == [kind |-> "list", val |-> v]
\* what a function returns: None or a numpy array
NoArray == [kind |-> "None", val |-> "-"]
NpArray(v) == [kind |-> "ndarray", val |-> v]

\* PGVECTOR_AVAILABLE and settings.USE_POSTGRES (the default is "false")
UsePgvector == FALSE

get_embedding_array(embedding) ==
  IF embedding.kind = "none" THEN NoArray
  ELSE IF embedding.kind = "list" THEN NpArray(embedding.val)
  ELSE NpArray(embedding.val)             \* np.array(json.loads(self.embedding))

set_embedding(v) == IF UsePgvector THEN ListValue(v) ELSE JsonText(v)

\* ------------------------------------------------------------------------
\* The sequential run of a limiter call, statement by statement, as one caller
\* alone makes it: the steps are the ones the threads of Spec take.
WfcStatement(lim, loc, clk) ==
  CASE loc.pc = "wfc_acquire"     -> WfcAcquireStep(lim, loc, clk, 1)
    [] loc.pc = "wfc_time"        -> WfcTimeStep(lim, loc, clk)
    [] loc.pc = "prune_tok"       -> PruneTokTestStep(lim, loc, clk)
    [] loc.pc = "prune_tok_pop"   -> PruneTokPopStep(lim, loc, clk)
    [] loc.pc = "prune_req"       -> PruneReqTestStep(lim, loc, clk)
    [] loc.pc = "prune_req_pop"   -> PruneReqPopStep(lim, loc, clk)
    [] loc.pc = "req_check"       -> ReqCheckStep(lim, loc, clk)
    [] loc.pc = "req_oldest"      -> ReqOldestStep(lim, loc, clk)
    [] loc.pc = "req_sleep"       -> ReqWakeStep(lim, loc, clk)
    [] loc.pc = "reprune_req"     -> RepruneReqTestStep(lim, loc, clk)
    [] loc.pc = "reprune_req_pop" -> RepruneReqPopStep(lim, loc, clk)
    [] loc.pc = "tok_check"       -> TokCheckStep(lim, loc, clk)
    [] loc.pc = "tok_nonempty"    -> TokNonEmptyStep(lim, loc, clk)
    [] loc.pc = "tok_oldest"      -> TokOldestStep(lim, loc, clk)
    [] loc.pc = "tok_sleep"       -> TokWakeStep(lim, loc, clk)
    [] loc.pc = "sec_check"       -> SecCheckStep(lim, loc, clk)
    [] loc.pc = "sec_sleep"       -> SecWakeStep(lim, loc, clk)
    [] loc.pc = "append_tok"      -> AppendTokStep(lim, loc, clk)
    [] loc.pc = "append_req"      -> AppendReqStep(lim, loc, clk)
    [] loc.pc = "ru_time"         -> RuTimeStep(lim, loc, clk)
    [] loc.pc = "ru_acquire"      -> RuAcquireStep(lim, loc, clk, 1)
    [] loc.pc = "ru_append"       -> RuAppendStep(lim, loc, clk)

RECURSIVE RunCall(_, _, _)
RunCall(lim, loc, clk) ==
  IF loc.pc \in {"done", "error"} THEN Res(lim, loc, clk)
  ELSE LET r == WfcStatement(lim, loc, clk) IN RunCall(r.lim, r.loc, r.clk)

\* asyncio.run(rate_limiter.wait_for_capacity(estimated_tokens))
WfcRun(lim, est, clk) == RunCall(lim, Frame("wfc_acquire", 0, est), clk)
\* rate_limiter.record_usage(tokens_used)
RuRun(lim, n, clk) == RunCall(lim, Frame("ru_time", 0, n), clk)

\* ------------------------------------------------------------------------
\* langchain_service.get_embedding
max_retries == 3           \* def get_embedding(text, db, max_retries: int = 3)
MaxTextLen == 32000        \* text = text[:32000]
MinEstimate == 100         \* max(100, len(text) // 4)
CharsPerToken == 4
BackoffBase == 20          \* wait_time = (2 ** attempt) * 2, in tenths of a second

\* text[:32000]
Truncate(text) == SubSeq(text, 1, Min(Len(text), MaxTextLen))
\* max(100, len(text) // 4)
EstimatedTokens(text) == Max(MinEstimate, Len(text) \div CharsPerToken)

\* The messages of the exceptions the provider, the usage log and the limiter
\* raise, as str(e) gives them.
RateLimitMsg == <<"R", "a", "t", "e", " ", "L", "i", "m", "i", "t">>
Http429Msg == <<"4", "2", "9">>
TimeoutMsg == <<"t", "i", "m", "e", "d", " ", "o", "u", "t">>
DbLockedMsg == <<"l", "o", "c", "k", "e", "d">>
DbParams429Msg == <<"p", "a", "r", "a", "m", "s", " ", "4", "2", "9">>
IndexErrorMsg == <<"p", "o", "p">>
ProviderMessages == {RateLimitMsg, Http429Msg, TimeoutMsg}
DbMessages == {DbLockedMsg, DbParams429Msg}

\* error_msg = str(e).lower()
\* "rate limit" in error_msg or "429" in error_msg
IsRateLimitError(msg) ==
  LET error_msg == Lower(msg)
  IN \/ Contains(error_msg, <<"r", "a", "t", "e", " ", "l", "i", "m", "i", "t">>)
     \/ Contains(error_msg, <<"4", "2", "9">>)

\* (...) and attempt < max_retries - 1
ShouldRetry(msg, attempt) == IsRateLimitError(msg) /\ attempt < max_retries - 1

\* 2 ** attempt
RECURSIVE Pow2(_)
Pow2(n) == IF n = 0 THEN 1 ELSE 2 * Pow2(n - 1)

BackoffWait_flat(attempt) == BackoffBase

\* wait_time = (2 ** attempt) * 2
BackoffWait(attempt) == Pow2(attempt) * BackoffBase

\* cb.total_tokens as the callback reports it for the request
TokenReports == {0, 100}

\* rate_limiter = get_rate_limiter(), called by one caller alone
GrlRun(lims, global) ==
  IF global = 0
  THEN [limiters |-> Append(lims, DefaultRateLimiter), global |-> Len(lims) + 1]
  ELSE [limiters |-> lims, global |-> global]

\* The frame of one get_or_create_embedding call and of the get_embedding call
\* it makes. provider_calls, reserves, backoffs, fails, cause, hit, skipped and
\* the two snapshots taken at the call are kept for the properties only.
EmbFrame(pc, n) ==
  [ pc |-> pc, n |-> n,
    cleaned |-> <<>>, text |-> <<>>, estimated_tokens |-> 0, attempt |-> 0,
    embedding |-> "-", tokens_used |-> 0, result |-> NoArray,
    hit |-> FALSE, skipped |-> FALSE, cause |-> "none",
    provider_calls |-> 0, reserves |-> 0, backoffs |-> <<>>, fails |-> <<>>,
    transcript0 |-> <<>>, limiters0 |-> <<>> ]

EmbIdle == EmbFrame("idle", 0)

\* except Exception as e: of get_embedding, for the exception with message msg
\* raised at the clock clk: the frame and the clock after the handler
Handled(f, msg, cause, clk) ==
  LET failed == [f EXCEPT !.fails = Append(@, [attempt |-> f.attempt,
                                                rate_limit |-> IsRateLimitError(msg),
                                                provider_calls |-> f.provider_calls])]
  IN IF ShouldRetry(msg, f.attempt)
     THEN [frame |-> [failed EXCEPT !.pc = "ge_reserve", !.attempt = @ + 1,
                                    !.backoffs = Append(@, BackoffWait(f.attempt))],
           clk |-> clk + BackoffWait(f.attempt)]
     ELSE [frame |-> [failed EXCEPT !.pc = "ge_raised", !.cause = cause],
           clk |-> clk]

\* cleaned = transcript.cleaned_content or clean_transcript(transcript.content)
CleanedOf(tr) ==
  IF tr.cleaned_content # NoStr /\ tr.cleaned_content[1] # <<>>
  THEN tr.cleaned_content[1]
  ELSE clean_transcript(tr.content)

CacheHit_never(tr) == FALSE

\* if transcript.embedding is not None:
\*     embedding_array = transcript.get_embedding_array()
\*     if embedding_array is not None:
CacheHit(tr) ==
  tr.embedding # NoEmbedding /\ get_embedding_array(tr.embedding) # NoArray

NothingToEmbed_unstripped(cleaned) == cleaned = <<>>

\* if not cleaned or not cleaned.strip():
NothingToEmbed(cleaned) == cleaned = <<>> \/ Strip(cleaned) = <<>>

\* get_or_create_embedding(db, transcript) is called: the cache test, the test
\* of the cleaned text and, past both, the head of get_embedding (truncation,
\* estimate, get_rate_limiter()).
GocStart ==
  /\ emb.pc \in {"idle", "goc_returned"}
  /\ emb.n < MaxEmbedCalls
  /\ session = <<>>
  /\ LET f == [EmbFrame("goc_returned", emb.n + 1) EXCEPT
                 !.transcript0 = transcript, !.limiters0 = limiters]
         cleaned == CleanedOf(transcript)
         g == GrlRun(limiters, _rate_limiter)
     IN IF CacheHit(transcript)
        THEN /\ emb' = [f EXCEPT !.hit = TRUE,
                                 !.result = get_embedding_array(transcript.embedding)]
             /\ UNCHANGED <<limiters, _rate_limiter>>
        ELSE IF NothingToEmbed(cleaned)
        THEN /\ emb' = [f EXCEPT !.skipped = TRUE]
             /\ UNCHANGED <<limiters, _rate_limiter>>
        ELSE /\ emb' = [f EXCEPT !.pc = "ge_reserve", !.cleaned = cleaned,
                                 !.text = Truncate(cleaned),
                                 !.estimated_tokens = EstimatedTokens(Truncate(cleaned))]
             /\ limiters' = g.limiters
             /\ _rate_limiter' = g.global
  /\ UNCHANGED <<clock, ticks, th, ref, calls, max_est, transcript, row, session, bat, hs, pf, up>>

GeReserve_unreserved ==
  /\ emb.pc = "ge_reserve"
  /\ emb' = [emb EXCEPT !.pc = "ge_provider"]
  /\ UNCHANGED <<clock, ticks, limiters, _rate_limiter, th, ref, calls, max_est,
                 transcript, row, session, bat, hs, pf, up>>

\* asyncio.run(rate_limiter.wait_for_capacity(estimated_tokens)), or the same
\* on an executor thread the with block waits for
GeReserve ==
  /\ emb.pc = "ge_reserve"
  /\ LET r == WfcRun(limiters[_rate_limiter], emb.estimated_tokens, clock)
         h == Handled(emb, IndexErrorMsg, "limiter", r.clk)
     IN /\ limiters' = [limiters EXCEPT ![_rate_limiter] = r.lim]
        /\ IF r.loc.pc = "error"
           THEN emb' = h.frame /\ clock' = h.clk
           ELSE /\ emb' = [emb EXCEPT !.pc = "ge_provider", !.reserves = @ + 1]
                /\ clock' = r.clk
  /\ UNCHANGED <<ticks, _rate_limiter, th, ref, calls, max_est,
                 transcript, row, session, bat, hs, pf, up>>

\* embedding = embeddings.embed_query(text); tokens_used = cb.total_tokens
\* The provider answers with the vector v and reports n tokens, or raises msg.
GeProviderOk(v, n) ==
  /\ emb.pc = "ge_provider"
  /\ emb' = [emb EXCEPT !.pc = "ge_log", !.embedding = v, !.tokens_used = n,
                        !.provider_calls = @ + 1]
  /\ UNCHANGED <<clock, ticks, limiters, _rate_limiter, th, ref, calls, max_est,
                 transcript, row, session, bat, hs, pf, up>>

GeProviderFails(msg) ==
  /\ emb.pc = "ge_provider"
  /\ LET h == Handled([emb EXCEPT !.provider_calls = @ + 1], msg, "provider", clock)
     IN emb' = h.frame /\ clock' = h.clk
  /\ UNCHANGED <<ticks, limiters, _rate_limiter, th, ref, calls, max_est,
                 transcript, row, session, bat, hs, pf, up>>

\* log_usage(db, ...): db.add(log); db.commit()
\* rate_limiter.record_usage(tokens_used)
\* return embedding
GeLogOk ==
  /\ emb.pc = "ge_log"
  /\ session = <<>>
  /\ LET r == RuRun(limiters[_rate_limiter], emb.tokens_used, clock)
     IN /\ limiters' = [limiters EXCEPT ![_rate_limiter] = r.lim]
        /\ clock' = r.clk
  /\ emb' = [emb EXCEPT !.pc = "ge_returned"]
  /\ UNCHANGED <<ticks, _rate_limiter, th, ref, calls, max_est, transcript, row,
                 session, bat, hs, pf, up>>

\* The commit of log_usage raises msg; a session whose commit failed before and
\* that was not rolled back raises again, naming the first failure.
GeLogFails(msg) ==
  /\ emb.pc = "ge_log"
  /\ session # <<>> => msg = session[1]
  /\ session' = <<msg>>
  /\ LET h == Handled(emb, msg, "log", clock)
     IN emb' = h.frame /\ clock' = h.clk
  /\ UNCHANGED <<ticks, limiters, _rate_limiter, th, ref, calls, max_est,
                 transcript, row, bat, hs, pf, up>>

\* The outcomes of  transcript.set_embedding(embedding);
\* transcript.cleaned_content = cleaned; db.flush(); db.commit();
\* db.refresh(transcript):
\*   "ok"            all three succeed;
\*   "flush_fails"   the UPDATE fails: the session rolls the transaction back and
\*                   expires the object, which shows the row again;
\*   "commit_fails"  the COMMIT fails after the UPDATE was sent: nothing is
\*                   rolled back in the session, the object keeps what was
\*                   assigned, the row is not changed;
\*   "refresh_fails" the row is committed and the SELECT of refresh fails.
PersistOutcomes == {"ok", "flush_fails", "commit_fails", "refresh_fails"}

\* get_embedding returned (embed_query gives a list, never None): lines 44-52
\* of get_or_create_embedding and its handler.
GocPersist(o) ==
  /\ emb.pc = "ge_returned"
  /\ LET assigned == [transcript EXCEPT !.embedding = set_embedding(emb.embedding),
                                        !.cleaned_content = Str(emb.cleaned)]
     IN CASE o = "ok" ->
               /\ transcript' = assigned /\ row' = assigned
               /\ session' = session
               /\ emb' = [emb EXCEPT !.pc = "goc_returned",
                                     !.result = NpArray(emb.embedding)]
          [] o = "flush_fails" ->
               /\ transcript' = row /\ row' = row
               /\ session' = <<DbLockedMsg>>
               /\ emb' = [emb EXCEPT !.pc = "goc_returned", !.cause = "flush"]
          [] o = "commit_fails" ->
               /\ transcript' = assigned /\ row' = row
               /\ session' = <<DbLockedMsg>>
               /\ emb' = [emb EXCEPT !.pc = "goc_returned", !.cause = "commit"]
          [] o = "refresh_fails" ->
               /\ transcript' = assigned /\ row' = assigned
               /\ session' = session
               /\ emb' = [emb EXCEPT !.pc = "goc_returned", !.cause = "refresh"]
  /\ UNCHANGED <<clock, ticks, limiters, _rate_limiter, th, ref, calls, max_est, bat, hs, pf, up>>

\* get_embedding raised:  except Exception as e: ... return None
GocCatch ==
  /\ emb.pc = "ge_raised"
  /\ emb' = [emb EXCEPT !.pc = "goc_returned"]
  /\ UNCHANGED <<clock, ticks, limiters, _rate_limiter, th, ref, calls, max_est,
                 transcript, row, session, bat, hs, pf, up>>

\* A later request: get_db() opens a new session and the transcript is loaded
\* from its row again.
NewSession ==
  /\ emb.pc \in {"idle", "goc_returned"}
  /\ session # <<>> \/ transcript # row
  /\ session' = <<>>
  /\ transcript' = row
  /\ UNCHANGED <<clock, ticks, limiters, _rate_limiter, th, ref, calls, max_est,
                 row, emb, bat, hs, pf, up>>

\* ------------------------------------------------------------------------
\* langchain_service.get_embeddings_batch. A text of a batch is its position in
\* the input and its length; the vector the provider gives for it names the
\* text it was computed from.
BATCH_SIZE == 100

TextLengths == <<3, 800, 40000>>
BatchText(i) == [id |-> i, len |-> TextLengths[(i % 3) + 1]]
MakeBatch(n) == [i \in 1..n |-> BatchText(i)]
\* the batches get_embeddings_batch is called with, by size
BatchSizes == {0, 1, BATCH_SIZE, BATCH_SIZE + 1, MaxBatch}

VectorOf(t) == [of |-> t.id]
NoVector == [of |-> 0]                 \* None in all_embeddings

\* texts = [text[:32000] for text in texts]
TruncateAll(texts) ==
  [k \in 1..Len(texts) |-> [texts[k] EXCEPT !.len = Min(@, MaxTextLen)]]

ChunkAt_overlapping(texts, i) ==
  SubSeq(texts, i + 1, Min(i + BATCH_SIZE + 1, Len(texts)))

\* texts[i:i + BATCH_SIZE]
ChunkAt(texts, i) == SubSeq(texts, i + 1, Min(i + BATCH_SIZE, Len(texts)))

RECURSIVE SumEstimates(_)
\* sum(max(100, len(text) // 4) for text in chunk)
SumEstimates(chunk) ==
  IF chunk = <<>> THEN 0
  ELSE Max(MinEstimate, Head(chunk).len \div CharsPerToken) + SumEstimates(Tail(chunk))

\* [None] * len(chunk)
Placeholders(chunk) == [k \in 1..Len(chunk) |-> NoVector]

\* embeddings.embed_documents(chunk), when it answers
EmbedDocuments(chunk) == [k \in 1..Len(chunk) |-> VectorOf(chunk[k])]

\* The frame of one get_embeddings_batch call. requested (the chunk offsets the
\* provider was asked for) and exhausted (a chunk failed on its last attempt)
\* are kept for the properties only.
BatFrame(pc, texts) ==
  [ pc |-> pc, texts |-> texts, i |-> 0, chunk |-> <<>>, estimated_tokens |-> 0,
    attempt |-> 0, chunk_processed |-> FALSE, chunk_embeddings |-> <<>>,
    tokens_used |-> 0, all_embeddings |-> <<>>,
    requested |-> <<>>, exhausted |-> FALSE ]

BatIdle == BatFrame("idle", <<>>)

\* for i in range(0, len(texts), BATCH_SIZE): the next iteration at offset i, or
\* return all_embeddings when the range is used up
EnterChunk(f, i) ==
  IF i < Len(f.texts)
  THEN [f EXCEPT !.pc = "bat_reserve", !.i = i, !.chunk = ChunkAt(f.texts, i),
                 !.chunk_processed = FALSE,
                 !.estimated_tokens = SumEstimates(ChunkAt(f.texts, i)),
                 !.attempt = 0]
  ELSE [f EXCEPT !.pc = "bat_returned"]

\* except Exception as e: of get_embeddings_batch
BatHandled(f, msg, clk) ==
  IF ShouldRetry(msg, f.attempt)
  THEN [frame |-> [f EXCEPT !.pc = "bat_reserve", !.attempt = @ + 1],
        clk |-> clk + BackoffWait(f.attempt)]
  ELSE [frame |-> [f EXCEPT !.pc = "bat_raised",
                            !.all_embeddings =
                               IF f.attempt = max_retries - 1
                               THEN @ \o Placeholders(f.chunk) ELSE @,
                            !.exhausted = (f.attempt = max_retries - 1)],
        clk |-> clk]

\* get_embeddings_batch(texts, db) is called with a batch of n texts
BatStart(n) ==
  /\ bat.pc = "idle"
  /\ LET g == GrlRun(limiters, _rate_limiter)
     IN /\ limiters' = g.limiters
        /\ _rate_limiter' = g.global
  /\ bat' = EnterChunk(BatFrame("idle", TruncateAll(MakeBatch(n))), 0)
  /\ UNCHANGED <<clock, ticks, th, ref, calls, max_est, transcript, row, session, emb, hs, pf, up>>

\* asyncio.run(rate_limiter.wait_for_capacity(estimated_tokens))
BatReserve ==
  /\ bat.pc = "bat_reserve"
  /\ LET r == WfcRun(limiters[_rate_limiter], bat.estimated_tokens, clock)
         h == BatHandled(bat, IndexErrorMsg, r.clk)
     IN /\ limiters' = [limiters EXCEPT ![_rate_limiter] = r.lim]
        /\ IF r.loc.pc = "error"
           THEN bat' = h.frame /\ clock' = h.clk
           ELSE bat' = [bat EXCEPT !.pc = "bat_provider"] /\ clock' = r.clk
  /\ UNCHANGED <<ticks, _rate_limiter, th, ref, calls, max_est,
                 transcript, row, session, emb, hs, pf, up>>

\* chunk_embeddings = embeddings.embed_documents(chunk); tokens_used = cb.total_tokens
BatProviderOk(n) ==
  /\ bat.pc = "bat_provider"
  /\ bat' = [bat EXCEPT !.pc = "bat_log", !.chunk_embeddings = EmbedDocuments(bat.chunk),
                        !.tokens_used = n, !.requested = Append(@, bat.i)]
  /\ UNCHANGED <<clock, ticks, limiters, _rate_limiter, th, ref, calls, max_est,
                 transcript, row, session, emb, hs, pf, up>>

BatProviderFails(msg) ==
  /\ bat.pc = "bat_provider"
  /\ LET h == BatHandled([bat EXCEPT !.requested = Append(@, bat.i)], msg, clock)
     IN bat' = h.frame /\ clock' = h.clk
  /\ UNCHANGED <<ticks, limiters, _rate_limiter, th, ref, calls, max_est,
                 transcript, row, session, emb, hs, pf, up>>

\* log_usage(db, "embedding_batch", ...); rate_limiter.record_usage(tokens_used)
\* all_embeddings.extend(chunk_embeddings); chunk_processed = True; break
BatLogOk ==
  /\ bat.pc = "bat_log"
  /\ session = <<>>
  /\ LET r == RuRun(limiters[_rate_limiter], bat.tokens_used, clock)
     IN /\ limiters' = [limiters EXCEPT ![_rate_limiter] = r.lim]
        /\ clock' = r.clk
  /\ bat' = [bat EXCEPT !.pc = "bat_chunk_end", !.chunk_processed = TRUE,
                        !.all_embeddings = @ \o bat.chunk_embeddings]
  /\ UNCHANGED <<ticks, _rate_limiter, th, ref, calls, max_est, transcript, row,
                 session, emb, hs, pf, up>>

BatLogFails(msg) ==
  /\ bat.pc = "bat_log"
  /\ session # <<>> => msg = session[1]
  /\ session' = <<msg>>
  /\ LET h == BatHandled(bat, msg, clock)
     IN bat' = h.frame /\ clock' = h.clk
  /\ UNCHANGED <<ticks, limiters, _rate_limiter, th, ref, calls, max_est,
                 transcript, row, emb, hs, pf, up>>

\* if not chunk_processed: all_embeddings.extend([None] * len(chunk))
\* and the next iteration of the loop over the chunks, or the return
BatChunkEnd ==
  /\ bat.pc = "bat_chunk_end"
  /\ LET f == IF bat.chunk_processed THEN bat
              ELSE [bat EXCEPT !.all_embeddings = @ \o Placeholders(bat.chunk)]
     IN bat' = EnterChunk(f, bat.i + BATCH_SIZE)
  /\ UNCHANGED <<clock, ticks, limiters, _rate_limiter, th, ref, calls, max_est,
                 transcript, row, session, emb, hs, pf, up>>

\* ------------------------------------------------------------------------
\* Scores. A score is the fraction num / den with den > 0, so that
\* matches / len(query_words) and dot / (norm1 * norm2) are kept exactly.
Rat(n, d) == [num |-> n, den |-> d]
RatLe(a, b) == a.num * b.den <= b.num * a.den
RatEq(a, b) == a.num * b.den = b.num * a.den
RatMax(a, b) == IF RatLe(b, a) THEN a ELSE b

\* ------------------------------------ embedding_service.cosine_similarity
RECURSIVE Dot(_, _)
\* np.dot(vec1, vec2), for vectors of one length
Dot(a, b) == IF a = <<>> \/ b = <<>> THEN 0 ELSE Head(a) * Head(b) + Dot(Tail(a), Tail(b))

\* the integer square root
Isqrt(n) == CHOOSE r \in 0..n : r * r <= n /\ n < (r + 1) * (r + 1)

\* np.linalg.norm(vec); the vectors of the model have whole norms
Norm(a) == Isqrt(Dot(a, a))

cosine_similarity(vec1, vec2) ==
  IF Norm(vec1) = 0 \/ Norm(vec2) = 0 THEN Rat(0, 1)
  ELSE Rat(Dot(vec1, vec2), Norm(vec1) * Norm(vec2))

\* ------------------------------------------------------------------------
\* search_service. A record of the corpus is a row of transcripts with the
\* cleaned text its file gives (get_transcript_cleaned), None without file.
\* A result is (transcript_dict, similarity, snippet).
Result(rec, score, snippet) ==
  [filename |-> rec.filename, score |-> score, snippet |-> snippet]

\* every row of the table, with or without embedding
WithEmbedding_all(corpus) == corpus

\* db.query(Transcript).filter(Transcript.embedding.isnot(None)).all()
WithEmbedding(corpus) == SelectSeq(corpus, LAMBDA rec : rec.embedding # NoEmbedding)

\* cleaned_content = transcript.cleaned_content
\* if not cleaned_content: cleaned_content = get_transcript_cleaned(filename) or ""
CleanedContentOf(rec) ==
  IF rec.cleaned_content # NoStr /\ rec.cleaned_content[1] # <<>>
  THEN rec.cleaned_content[1]
  ELSE IF rec.file # NoStr THEN rec.file[1] ELSE <<>>

RECURSIVE InsertDesc(_, _)
\* x put behind every element of the sorted list whose score is not smaller
InsertDesc(x, sorted) ==
  IF sorted = <<>> THEN <<x>>
  ELSE IF RatLe(x.score, Head(sorted).score)
       THEN <<Head(sorted)>> \o InsertDesc(x, Tail(sorted))
       ELSE <<x>> \o sorted

RECURSIVE SortDesc(_, _)
\* results.sort(key=score, reverse=True): stable, equal scores keep their order
SortDesc(list, sorted) ==
  IF list = <<>> THEN sorted ELSE SortDesc(Tail(list), InsertDesc(Head(list), sorted))

\* the default context_chars of get_snippet
DefaultContextChars == 100

\* no stored vector taken for one of another length
DimensionMismatch_ignored(rec, query_vector) == FALSE

\* if len(transcript_emb_list) != len(query_vector): continue
DimensionMismatch(rec, query_vector) ==
  Len(get_embedding_array(rec.embedding).val) # Len(query_vector)

RECURSIVE SemanticScan(_, _, _, _)
\* the loop of semantic_search over the records with embedding
SemanticScan(rows, query, query_vector, threshold) ==
  IF rows = <<>> THEN <<>>
  ELSE LET rec == Head(rows)
           rest == SemanticScan(Tail(rows), query, query_vector, threshold)
           similarity ==
             cosine_similarity(query_vector, get_embedding_array(rec.embedding).val)
       IN IF get_embedding_array(rec.embedding) = NoArray THEN rest
          ELSE IF DimensionMismatch(rec, query_vector) THEN rest
          ELSE IF RatLe(threshold, similarity)
               THEN <<Result(rec, similarity,
                             get_snippet(CleanedContentOf(rec), query, DefaultContextChars))>>
                    \o rest
               ELSE rest

\* semantic_search past the query embedding: scan, sort, results[:limit]
SemanticResults(corpus, query, query_vector, limit, threshold) ==
  LET sorted == SortDesc(SemanticScan(WithEmbedding(corpus), query, query_vector,
                                      threshold), <<>>)
  IN SubSeq(sorted, 1, Min(limit, Len(sorted)))

\* query_words = [w.strip() for w in query.lower().strip().split() if w.strip()]
QueryWords(query) == SplitWords(Strip(Lower(query)), <<>>)

RECURSIVE CountMatches(_, _)
\* sum(1 for word in query_words if word in content_lower)
CountMatches(words, content_lower) ==
  IF words = <<>> THEN 0
  ELSE (IF Contains(content_lower, Head(words)) THEN 1 ELSE 0)
       + CountMatches(Tail(words), content_lower)

RECURSIVE KeywordScan(_, _, _)
\* the loop of keyword_search_enhanced over the records with embedding
KeywordScan(rows, query, query_words) ==
  IF rows = <<>> THEN <<>>
  ELSE LET rec == Head(rows)
           rest == KeywordScan(Tail(rows), query, query_words)
           cleaned_content == CleanedContentOf(rec)
           matches == CountMatches(query_words, Lower(cleaned_content))
       IN IF cleaned_content = <<>> THEN rest
          ELSE IF matches > 0
               THEN <<Result(rec, Rat(matches, Len(query_words)),
                             get_snippet(cleaned_content, query, DefaultContextChars))>>
                    \o rest
               ELSE rest

keyword_search_enhanced(corpus, query, limit) ==
  IF QueryWords(query) = <<>> THEN <<>>
  ELSE LET sorted == SortDesc(KeywordScan(WithEmbedding(corpus), query,
                                          QueryWords(query)), <<>>)
       IN SubSeq(sorted, 1, Min(limit, Len(sorted)))

\* threshold: float = 0.5
DefaultThreshold == Rat(1, 2)

\* max(0.85, similarity)
KeywordFloor == Rat(85, 100)
\* the keyword score taken as it is
Floored_none(score) == score

Floored(score) == RatMax(KeywordFloor, score)

\* key in combined
InCombined(filename, combined) ==
  \E k \in 1..Len(combined) : combined[k].filename = filename

RECURSIVE AddKeyword(_, _)
\* the second loop of the fusion: a keyword result whose key is not in combined
\* is added with the floored score
AddKeyword(combined, keyword_results) ==
  IF keyword_results = <<>> THEN combined
  ELSE LET r == Head(keyword_results)
       IN IF InCombined(r.filename, combined)
          THEN AddKeyword(combined, Tail(keyword_results))
          ELSE AddKeyword(Append(combined, [r EXCEPT !.score = Floored(r.score)]),
                          Tail(keyword_results))

\* combined.values() after both loops (filenames are unique in a result list,
\* so the first loop keeps the semantic results as they are)
Combined(semantic_results, keyword_results) ==
  AddKeyword(semantic_results, keyword_results)

\* the fusion without its sort
Fused_unsorted(semantic_results, keyword_results, limit) ==
  LET merged == Combined(semantic_results, keyword_results)
  IN SubSeq(merged, 1, Min(limit, Len(merged)))

\* results.sort(key=score, reverse=True); return results[:limit]
Fused(semantic_results, keyword_results, limit) ==
  LET sorted == SortDesc(Combined(semantic_results, keyword_results), <<>>)
  IN SubSeq(sorted, 1, Min(limit, Len(sorted)))

\* The frame of one hybrid_search call.
HsFrame(pc, corpus, query, limit) ==
  [ pc |-> pc, corpus |-> corpus, query |-> query, limit |-> limit,
    threshold |-> DefaultThreshold,
    semantic_results |-> <<>>, keyword_results |-> <<>>,
    combined |-> <<>>, results |-> <<>> ]

\* no query taken for blank
BlankQuery_never(query) == FALSE

\* if not query or not query.strip():
BlankQuery(query) == query = <<>> \/ Strip(query) = <<>>

\* hybrid_search(db, query, limit) is called on the corpus: semantic_search
\* starts, returns [] at once for a blank query and calls get_embedding(query, db)
\* otherwise (its head: truncation, estimate, get_rate_limiter()).
HsStart(corpus, query, limit) ==
  /\ hs.pc = "idle"
  /\ LET g == GrlRun(limiters, _rate_limiter)
     IN IF BlankQuery(query)
        THEN /\ hs' = HsFrame("hs_keyword", corpus, query, limit)
             /\ UNCHANGED <<limiters, _rate_limiter, emb>>
        ELSE /\ hs' = HsFrame("hs_embedding", corpus, query, limit)
             /\ emb' = [EmbFrame("ge_reserve", 1) EXCEPT
                          !.cleaned = query, !.text = Truncate(query),
                          !.estimated_tokens = EstimatedTokens(Truncate(query)),
                          !.limiters0 = limiters]
             /\ limiters' = g.limiters
             /\ _rate_limiter' = g.global
  /\ UNCHANGED <<clock, ticks, th, ref, calls, max_est, transcript, row, session,
                 bat, pf, up>>

\* get_embedding returned the query vector: the scan of semantic_search, its
\* sort and its results[:limit], with limit * 2 for limit
HsScan ==
  /\ hs.pc = "hs_embedding"
  /\ emb.pc = "ge_returned"
  /\ hs' = [hs EXCEPT !.pc = "hs_keyword",
                      !.semantic_results =
                         SemanticResults(hs.corpus, hs.query, emb.embedding,
                                         hs.limit * 2, hs.threshold)]
  /\ UNCHANGED <<clock, ticks, limiters, _rate_limiter, th, ref, calls, max_est,
                 transcript, row, session, emb, bat, pf, up>>

\* get_embedding raised:  except Exception as e: ... return []
HsNoVector ==
  /\ hs.pc = "hs_embedding"
  /\ emb.pc = "ge_raised"
  /\ hs' = [hs EXCEPT !.pc = "hs_keyword"]
  /\ UNCHANGED <<clock, ticks, limiters, _rate_limiter, th, ref, calls, max_est,
                 transcript, row, session, emb, bat, pf, up>>

\* keyword_results = keyword_search_enhanced(db, query, limit). Its db.query
\* raises on a session whose commit failed and that was not rolled back, and
\* hybrid_search has no handler.
HsKeyword ==
  /\ hs.pc = "hs_keyword"
  /\ IF QueryWords(hs.query) # <<>> /\ session # <<>>
     THEN hs' = [hs EXCEPT !.pc = "hs_raised"]
     ELSE hs' = [hs EXCEPT !.pc = "hs_fuse",
                           !.keyword_results =
                              keyword_search_enhanced(hs.corpus, hs.query, hs.limit)]
  /\ UNCHANGED <<clock, ticks, limiters, _rate_limiter, th, ref, calls, max_est,
                 transcript, row, session, emb, bat, pf, up>>

\* the fusion, the sort and  return results[:limit]
HsFuse ==
  /\ hs.pc = "hs_fuse"
  /\ hs' = [hs EXCEPT !.pc = "hs_returned",
                      !.combined = Combined(hs.semantic_results, hs.keyword_results),
                      !.results = Fused(hs.semantic_results, hs.keyword_results,
                                        hs.limit)]
  /\ UNCHANGED <<clock, ticks, limiters, _rate_limiter, th, ref, calls, max_est,
                 transcript, row, session, emb, bat, pf, up>>

\* ------------------------------------------------------------------------
\* routers/upload.upload_transcript. The frame of one request: the text of the
\* file, the two flags and the notes of the response, and whether
\* classify_text was called.
UpFrame(pc, text) ==
  [ pc |-> pc, text |-> text,
    embedding_generated |-> FALSE, classification_done |-> FALSE,
    notes |-> <<>>, classify_called |-> FALSE, goc_raised |-> FALSE ]

\* if not text_content.strip(): raise HTTPException(status_code=400, ...)
EmptyFile(text_content) == Strip(text_content) = <<>>

\* The record the request creates or resets: content "", the cleaned text, no
\* classification and no embedding.
UploadedRecord(text_content) ==
  [ content |-> Str(<<>>),
    cleaned_content |-> Str(clean_transcript(Str(text_content))),
    embedding |-> NoEmbedding ]

\* The request up to the embedding step: the file is read and written, the
\* text cleaned, the record created, flushed, committed and read again. stored
\* is FALSE when flush or commit raise, which the outer handler turns into
\* HTTP 500.
UpStart(text_content, stored) ==
  /\ up.pc = "idle"
  /\ emb.pc = "idle"
  /\ session = <<>>
  /\ IF EmptyFile(text_content)
     THEN /\ up' = UpFrame("up_http400", text_content)
          /\ UNCHANGED <<transcript, row>>
     ELSE IF ~stored
     THEN /\ up' = UpFrame("up_http500", text_content)
          /\ UNCHANGED <<transcript, row>>
     ELSE /\ up' = UpFrame("up_embedding", text_content)
          /\ transcript' = UploadedRecord(text_content)
          /\ row' = UploadedRecord(text_content)
  /\ UNCHANGED <<clock, ticks, limiters, _rate_limiter, th, ref, calls, max_est,
                 session, emb, bat, hs, pf>>

\* get_or_create_embedding(db, db_transcript) is over. Its handler prints
\* transcript.filename; after a flush that failed the session has expired the
\* object and cannot load it, so the handler itself may raise (raised), and
\* get_or_create_embedding raises instead of returning None.
MayRaise == session # <<>> /\ emb.cause \in {"flush", "log"}

\* Lines 135-158: the branches on the embedding, the handler of the embedding
\* step (db.rollback() and a note) and the query that follows it, which raises
\* on a session that was not rolled back: the outer handler answers HTTP 500.
\* The session is closed when the request ends (get_db).
UpAfterEmbedding(raised) ==
  /\ up.pc = "up_embedding"
  /\ emb.pc = "goc_returned"
  /\ raised => MayRaise
  /\ LET stored == emb.result # NoArray /\ row.embedding # NoEmbedding
         note == IF raised THEN "Error generando embedding: e"
                 ELSE IF emb.result = NoArray
                 THEN "Error generando embedding, se intentara en la proxima busqueda"
                 ELSE IF stored THEN "Embedding generado exitosamente"
                 ELSE "Error: embedding no se guardo correctamente"
         f == [up EXCEPT !.notes = Append(@, note),
                         !.embedding_generated = ~raised /\ stored,
                         !.goc_raised = raised]
     IN IF session # <<>> /\ ~raised
        THEN /\ up' = [f EXCEPT !.pc = "up_http500"]
             /\ session' = <<>>
             /\ transcript' = row
        ELSE /\ up' = [f EXCEPT !.pc = IF f.embedding_generated THEN "up_classify"
                                       ELSE "up_final"]
             /\ session' = <<>>
             /\ transcript' = row
  /\ UNCHANGED <<clock, ticks, limiters, _rate_limiter, th, ref, calls, max_est,
                 row, emb, bat, hs, pf>>

\* What the classification step comes to: the category is stored, classify_text
\* gives no category, or a statement of the step raises (the handler rolls the
\* session back and adds a note).
ClassifyOutcomes == {"stored", "no_category", "raises"}

\* Lines 163-268: if embedding_generated: ... classify_text(...) ...
UpClassify(o) ==
  /\ up.pc = "up_classify"
  /\ up' = [up EXCEPT !.pc = "up_final",
                      !.classify_called = TRUE,
                      !.classification_done = (o = "stored"),
                      !.notes = Append(@, CASE o = "stored" -> "Clasificada como: c"
                                            [] o = "no_category" ->
                                                 "Clasificacion no pudo determinar categoria"
                                            [] o = "raises" -> "Error en clasificacion: e")]
  /\ UNCHANGED <<clock, ticks, limiters, _rate_limiter, th, ref, calls, max_est,
                 transcript, row, session, emb, bat, hs, pf>>

\* Lines 270-300: the last query and the response.
UpReturn ==
  /\ up.pc = "up_final"
  /\ up' = [up EXCEPT !.pc = "up_returned"]
  /\ UNCHANGED <<clock, ticks, limiters, _rate_limiter, th, ref, calls, max_est,
                 transcript, row, session, emb, bat, hs, pf>>

\* No hybrid_search call, no call of a text function and no upload yet.
HsIdle == [pc |-> "idle"]
PfIdle == [op |-> "none"]
UpIdle == [pc |-> "idle"]

\* The transcript no embedding work is done on.
BlankTranscript ==
  [content |-> Str(<<>>), cleaned_content |-> NoStr, embedding |-> NoEmbedding]

NoEmbeddingWork ==
  /\ transcript = BlankTranscript
  /\ row = BlankTranscript
  /\ session = <<>>
  /\ emb = EmbIdle
  /\ bat = BatIdle
  /\ hs = HsIdle
  /\ pf = PfIdle
  /\ up = UpIdle

\* ------------------------------------------------------------------------
\* Spec: NThreads threads share one limiter, constructed with one of Configs,
\* and call wait_for_capacity and record_usage on it.
Init ==
  /\ clock = 0
  /\ ticks = 0
  /\ \E c \in Configs : limiters = <<RateLimiterNew(c.tpm, c.rpm, c.tps)>>
  /\ _rate_limiter = 1
  /\ th = [t \in Threads |-> IdleFrame]
  /\ ref = [t \in Threads |-> 1]
  /\ calls = 0
  /\ max_est = 0
  /\ NoEmbeddingWork

Next ==
  \/ \E t \in Threads : \E e \in Estimates(limiters[1].tokens_per_minute) : StartWfc(t, e)
  \/ \E t \in Threads : \E n \in Estimates(limiters[1].tokens_per_minute) : StartRu(t, n)
  \/ \E t \in Threads : LimiterStep(t)
  \/ \E d \in TickSteps : Tick(d)

Spec == Init /\ [][Next]_vars

\* ------------------------------------------------------------------------
\* SpecSingleton: the process starts with no limiter; NThreads threads call
\* get_rate_limiter() and record usage on the instance they were given.
UsageAmounts == {100}

InitSingleton ==
  /\ clock = 0
  /\ ticks = 0
  /\ limiters = <<>>
  /\ _rate_limiter = 0
  /\ th = [t \in Threads |-> IdleFrame]
  /\ ref = [t \in Threads |-> 0]
  /\ calls = 0
  /\ max_est = 0
  /\ NoEmbeddingWork

NextSingleton ==
  \/ \E t \in Threads : StartGrl(t)
  \/ \E t \in Threads : GrlStep(t)
  \/ \E t \in Threads : \E n \in UsageAmounts : StartRu(t, n)
  \/ \E t \in Threads : RuTime(t) \/ RuAcquire(t) \/ RuAppend(t)
  \/ \E d \in TickSteps : Tick(d)

SpecSingleton == InitSingleton /\ [][NextSingleton]_vars

\* ------------------------------------------------------------------------
\* SpecEmbed: one caller calls get_or_create_embedding on one transcript, up to
\* MaxEmbedCalls times, in a process that starts without a limiter.
Contents ==
  { NoStr, Str(<<>>), Str(<<" ", "\n">>), Str(<<"a">>), Str(SistemaMarker),
    Str(<<"a", " ", "1", "\n", " ">>) }
CleanedContents == { NoStr, Str(<<>>), Str(<<" ", "\n">>), Str(<<"a">>) }
StoredEmbeddings == { NoEmbedding, set_embedding("v1") }

InitEmbed ==
  /\ clock = 0
  /\ ticks = 0
  /\ limiters = <<>>
  /\ _rate_limiter = 0
  /\ th = [t \in Threads |-> IdleFrame]
  /\ ref = [t \in Threads |-> 0]
  /\ calls = 0
  /\ max_est = 0
  /\ \E c \in Contents, cc \in CleanedContents, e \in StoredEmbeddings :
       transcript = [content |-> c, cleaned_content |-> cc, embedding |-> e]
  /\ row = transcript
  /\ session = <<>>
  /\ emb = EmbIdle
  /\ bat = BatIdle
  /\ hs = HsIdle
  /\ pf = PfIdle
  /\ up = UpIdle

NextEmbed ==
  \/ GocStart
  \/ GeReserve
  \/ \E v \in Vectors : \E n \in TokenReports : GeProviderOk(v, n)
  \/ \E msg \in ProviderMessages : GeProviderFails(msg)
  \/ GeLogOk
  \/ \E msg \in DbMessages : GeLogFails(msg)
  \/ \E o \in PersistOutcomes : GocPersist(o)
  \/ GocCatch
  \/ NewSession
  \/ \E d \in TickSteps : Tick(d)

SpecEmbed == InitEmbed /\ [][NextEmbed]_vars

\* ------------------------------------------------------------------------
\* SpecBatch: one caller calls get_embeddings_batch once, in a process that
\* starts without a limiter.
InitBatch ==
  /\ clock = 0
  /\ ticks = 0
  /\ limiters = <<>>
  /\ _rate_limiter = 0
  /\ th = [t \in Threads |-> IdleFrame]
  /\ ref = [t \in Threads |-> 0]
  /\ calls = 0
  /\ max_est = 0
  /\ NoEmbeddingWork

NextBatch ==
  \/ \E n \in BatchSizes : BatStart(n)
  \/ BatReserve
  \/ \E n \in TokenReports : BatProviderOk(n)
  \/ \E msg \in ProviderMessages : BatProviderFails(msg)
  \/ BatLogOk
  \/ \E msg \in DbMessages : BatLogFails(msg)
  \/ BatChunkEnd
  \/ \E d \in TickSteps : Tick(d)

SpecBatch == InitBatch /\ [][NextBatch]_vars

\* ------------------------------------------------------------------------
\* SpecSearch: one caller calls hybrid_search once, on a corpus of up to
\* MaxCorpus records, in a process that starts without a limiter.
TxtA == <<"a">>
TxtAB == <<"a", " ", "b">>
TxtUpperA == <<"A">>
TxtC == <<"c">>
TxtD == <<"d">>
TxtB == <<"b">>

Rec(f, e, cc, file) ==
  [filename |-> f, embedding |-> e, cleaned_content |-> cc, file |-> file]

\* The query vectors the provider gives, and the records of the corpora with
\* their similarity to the first of them.
QueryVectors == { <<1, 0, 0, 0, 0>>, <<0, 0, 0, 0, 2>> }
RecordPool ==
  << Rec("f4", set_embedding(<<3, 4>>), Str(TxtA), NoStr),                  \* 2 entries
     Rec("f6", set_embedding(<<0, 0, 0, 0, 10>>), NoStr, Str(TxtB)),        \* 0.0
     Rec("f1", set_embedding(<<9, 3, 3, 1, 0>>), Str(TxtAB), NoStr),        \* 0.9
     Rec("f2", set_embedding(<<6, 8, 0, 0, 0>>), Str(TxtUpperA), NoStr),    \* 0.6
     Rec("f3", set_embedding(<<19, 5, 3, 2, 1>>), Str(TxtC), NoStr),        \* 0.95
     Rec("f5", NoEmbedding, Str(TxtAB), NoStr),                             \* no vector
     Rec("f7", set_embedding(<<17, 10, 3, 1, 1>>), Str(TxtC), NoStr),       \* 0.85
     Rec("f8", set_embedding(<<8, 6, 0, 0, 0>>), Str(TxtD), NoStr),         \* 0.8
     Rec("f9", set_embedding(<<7, 7, 1, 1, 0>>), Str(TxtD), NoStr) >>       \* 0.7

RECURSIVE Picked(_, _)
\* the records of the pool at the indices of S, in the order of the pool
Picked(S, from) ==
  IF from > Len(RecordPool) THEN <<>>
  ELSE (IF from \in S THEN <<RecordPool[from]>> ELSE <<>>) \o Picked(S, from + 1)

\* the corpora of up to n records: the rows in the order the database gives them
Corpora(n) ==
  { Picked(S, 1) : S \in { T \in SUBSET (1..Len(RecordPool)) : Cardinality(T) <= n } }

Queries ==
  { <<>>, <<" ">>, TxtA, <<"a", " ", "a", " ", "b">>, <<"B", " ", "c">> }

InitSearch ==
  /\ clock = 0
  /\ ticks = 0
  /\ limiters = <<>>
  /\ _rate_limiter = 0
  /\ th = [t \in Threads |-> IdleFrame]
  /\ ref = [t \in Threads |-> 0]
  /\ calls = 0
  /\ max_est = 0
  /\ NoEmbeddingWork

NextSearch ==
  \/ /\ hs.pc = "idle"
     /\ \E c \in Corpora(MaxCorpus), q \in Queries, l \in {1, MaxLimit} : HsStart(c, q, l)
  \/ GeReserve
  \/ \E v \in QueryVectors : \E n \in TokenReports : GeProviderOk(v, n)
  \/ \E msg \in ProviderMessages : GeProviderFails(msg)
  \/ GeLogOk
  \/ \E msg \in DbMessages : GeLogFails(msg)
  \/ HsScan
  \/ HsNoVector
  \/ HsKeyword
  \/ HsFuse

SpecSearch == InitSearch /\ [][NextSearch]_vars

\* ------------------------------------------------------------------------
\* SpecText: get_snippet and clean_transcript are called on texts.
MaxPad == 10         \* the longest run of context characters around the query
MaxContext == 6      \* the largest context_chars
MaxLines == 2        \* the most lines of a raw transcript

Pad(n, c) == [i \in 1..n |-> c]
Needle == <<"n", "e", "e", "d", "l", "e">>
SnippetQueries == { Needle, Upper(Needle), <<"z", "z">>, <<"x", " ", "n", "e", "e", "d", "l", "e">> }
SnippetMiddles == { <<" ">> \o Needle \o <<" ">>, <<" ">> \o Upper(Needle) \o <<" ">>, <<" ", "n", "e", "e", "d", " ">> }
SnippetTexts ==
  { Pad(n, "A") \o mid \o Pad(m, "B") : n \in 0..MaxPad, m \in 0..MaxPad, mid \in SnippetMiddles }

Stamp == <<"[", "0", "0", ":", "0", "0", ":", "0", "1", "]">>
RawLines ==
  { Stamp \o <<" ", "A", "G", "E", "N", "T", "E", ":">>,
    Stamp \o <<" ", "A", "G", "E", "N", "T", "E", ":", " ", "h", "o", "l", "a", " ", "1", "2">>,
    Stamp \o <<" ", "c", "l", "i", "e", "n", "t", "e", ":", " ", " ", "o", "k">>,
    Stamp \o <<"A", "g", "e", "n", "t", "e", ":", "o", "k">>,
    <<"h", "o", "l", "a", " ", "1", "2">>,
    Stamp \o <<" ", "S", "U", "P", "E", "R", "V", "I", "S", "O", "R", ":", " ", "o", "k">>,
    <<"S", "I", "S", "T", "E", "M", "A", ":", " ", "o", "k">>,
    <<>>,
    <<" ", " ", "o", "k", " ", " ">>,
    <<"A", "G", "E", "N", "T", "E", ":", " ", "o", "k">>,
    Stamp \o <<" ", "C", "L", "I", "E", "N", "T", "E", ":", " ", "1", ".", "5", " ">>,
    <<"[", "f", "i", "n", " ", "d", "e", " ", "l", "a", " ", "l", "l", "a", "m", "a", "d", "a", "]">> }
LineEnds == { <<"\n">>, <<"\r", "\n">> }

RECURSIVE RawTexts(_)
\* the raw transcripts of up to n lines
RawTexts(n) ==
  IF n = 0 THEN { <<>> }
  ELSE RawTexts(n - 1) \cup RawLines
         \cup { t \o e \o l : t \in RawTexts(n - 1) \ { <<>> }, e \in LineEnds, l \in RawLines }

\* snippet = get_snippet(text, query, context_chars)
SnippetCall(text, query, context_chars) ==
  /\ pf.op = "none"
  /\ pf' = [ op |-> "get_snippet", text |-> text, query |-> query,
             context_chars |-> context_chars,
             result |-> get_snippet(text, query, context_chars) ]
  /\ UNCHANGED <<clock, ticks, limiters, _rate_limiter, th, ref, calls, max_est,
                 transcript, row, session, emb, bat, hs, up>>

\* cleaned = clean_transcript(raw_text)
CleanCall(raw_text) ==
  /\ pf.op = "none"
  /\ pf' = [ op |-> "clean_transcript", text |-> raw_text,
             result |-> clean_transcript(Str(raw_text)) ]
  /\ UNCHANGED <<clock, ticks, limiters, _rate_limiter, th, ref, calls, max_est,
                 transcript, row, session, emb, bat, hs, up>>

InitText ==
  /\ clock = 0
  /\ ticks = 0
  /\ limiters = <<>>
  /\ _rate_limiter = 0
  /\ th = [t \in Threads |-> IdleFrame]
  /\ ref = [t \in Threads |-> 0]
  /\ calls = 0
  /\ max_est = 0
  /\ NoEmbeddingWork

NextText ==
  \/ /\ pf.op = "none"
     /\ \E text \in SnippetTexts, query \in SnippetQueries, c \in 0..MaxContext :
          SnippetCall(text, query, c)
  \/ /\ pf.op = "none"
     /\ \E raw_text \in RawTexts(MaxLines) : CleanCall(raw_text)

SpecText == InitText /\ [][NextText]_vars

\* ------------------------------------------------------------------------
\* SpecUpload: one file is uploaded in a process that starts without a
\* limiter, and a search request follows the upload.
UploadTexts ==
  { TxtA, <<"a", " ", "1", "\n", "b">>, SistemaMarker \o <<" ", "a">>, <<" ", "\n">> }

\* The corpus a search after the upload finds: the record of the upload.
UploadedCorpus ==
  << Rec("f1", row.embedding, row.cleaned_content, Str(clean_transcript(Str(up.text)))) >>

\* A search request that follows the answered upload.
SearchAfterUpload(query, limit) ==
  /\ up.pc \in {"up_returned", "up_http500"}
  /\ row.content = Str(<<>>)
  /\ HsStart(UploadedCorpus, query, limit)

InitUpload ==
  /\ clock = 0
  /\ ticks = 0
  /\ limiters = <<>>
  /\ _rate_limiter = 0
  /\ th = [t \in Threads |-> IdleFrame]
  /\ ref = [t \in Threads |-> 0]
  /\ calls = 0
  /\ max_est = 0
  /\ NoEmbeddingWork

NextUpload ==
  \/ \E text_content \in UploadTexts, stored \in BOOLEAN : UpStart(text_content, stored)
  \/ /\ up.pc = "up_embedding" /\ emb.pc = "idle"
     /\ GocStart
  \/ GeReserve
  \/ \E v \in QueryVectors : \E n \in TokenReports : GeProviderOk(v, n)
  \/ \E msg \in ProviderMessages : GeProviderFails(msg)
  \/ GeLogOk
  \/ \E msg \in DbMessages : GeLogFails(msg)
  \/ /\ up.pc = "up_embedding"
     /\ \E o \in PersistOutcomes : GocPersist(o)
  \/ /\ up.pc = "up_embedding"
     /\ GocCatch
  \/ \E raised \in BOOLEAN : UpAfterEmbedding(raised)
  \/ \E o \in ClassifyOutcomes : UpClassify(o)
  \/ UpReturn
  \/ \E query \in {TxtA, TxtB} : SearchAfterUpload(query, 1)
  \/ HsScan
  \/ HsNoVector
  \/ HsKeyword
  \/ HsFuse

SpecUpload == InitUpload /\ [][NextUpload]_vars

\* ------------------------------------------------------------------------
\* SpecSerial: a single caller calls wait_for_capacity and record_usage on one
\* limiter, constructed with one of Configs, one call after the other; each
\* call runs to its return. th[1] keeps the frame of the last call.
SerialWfc(e) ==
  /\ calls < MaxCalls
  /\ LET r == WfcRun(limiters[1], e, clock)
     IN /\ limiters' = <<r.lim>>
        /\ th' = [th EXCEPT ![1] = r.loc]
        /\ clock' = r.clk
  /\ calls' = calls + 1
  /\ max_est' = Max(max_est, e)
  /\ UNCHANGED <<ticks, _rate_limiter, ref>>
  /\ UNCHANGED embVars

SerialRu(n) ==
  /\ calls < MaxCalls
  /\ LET r == RuRun(limiters[1], n, clock)
     IN /\ limiters' = <<r.lim>>
        /\ th' = [th EXCEPT ![1] = r.loc]
        /\ clock' = r.clk
  /\ calls' = calls + 1
  /\ max_est' = Max(max_est, n)
  /\ UNCHANGED <<ticks, _rate_limiter, ref>>
  /\ UNCHANGED embVars

NextSerial ==
  \/ \E e \in Estimates(limiters[1].tokens_per_minute) : SerialWfc(e)
  \/ \E n \in Estimates(limiters[1].tokens_per_minute) : SerialRu(n)
  \/ \E d \in TickSteps : Tick(d)

SpecSerial == Init /\ [][NextSerial]_vars

\* ------------------------------------------------------------------------
\* Properties of the limiter under Spec.
InSeq(x, s) == \E k \in 1..Len(s) : s[k] = x

\* The token sum of the trailing 60 seconds of an instance at the time now.
TrailingSum(lim, now) == SumTokensSince(lim.token_history, now - Window)

Admitted(t) == th[t].adm_total >= 0

\* C1: a reservation admitted by wait_for_capacity that brings the token sum of
\* the trailing 60 seconds above tokens_per_minute was suspended in the
\* minute-token check first.
C1_NoOverBudgetAdmissionWithoutWait ==
  \A t \in Threads :
    (Admitted(t) /\ th[t].adm_total > limiters[th[t].self].tokens_per_minute)
      => InSeq("tok", th[t].susp)

\* C2: as long as every estimate passed so far is at most tokens_per_minute, the
\* token sum of the trailing 60 seconds exceeds tokens_per_minute by at most the
\* largest estimate passed so far (the estimate of one reservation).
C2_WindowSumWithinOneReservation ==
  \A i \in 1..Len(limiters) :
    max_est <= limiters[i].tokens_per_minute
      => TrailingSum(limiters[i], clock) <= limiters[i].tokens_per_minute + max_est

\* The checks a call may suspend in, in the order of the code.
RECURSIVE IsSubSeq(_, _)
IsSubSeq(s, of) ==
  IF s = <<>> THEN TRUE
  ELSE IF of = <<>> THEN FALSE
  ELSE IF Head(s) = Head(of) THEN IsSubSeq(Tail(s), Tail(of))
  ELSE IsSubSeq(s, Tail(of))

\* C3: no call of wait_for_capacity fails, and a call suspends at most once in
\* the request-count check, the minute-token check and the second-token check,
\* in that order.
C3_NeverFailsAndSuspendsInOrder ==
  \A t \in Threads :
    /\ th[t].pc # "error"
    /\ IsSubSeq(th[t].susp, <<"req", "tok", "sec">>)

\* C4: whenever token_history or request_history of an instance changes, the
\* lock of that instance is held.
C4_MutationsUnderLock ==
  [][\A i \in 1..Len(limiters) :
       (\/ limiters'[i].token_history # limiters[i].token_history
        \/ limiters'[i].request_history # limiters[i].request_history)
         => limiters[i].lock # 0]_vars

\* C5: at most one RateLimiter instance is ever created, and every caller of
\* get_rate_limiter holds that same instance.
C5_OneProcessWideLimiter ==
  /\ Len(limiters) <= 1
  /\ \A t, u \in Threads : (ref[t] # 0 /\ ref[u] # 0) => ref[t] = ref[u]

\* ------------------------------------------------------------------------
\* Properties of get_embedding and get_or_create_embedding under SpecEmbed.

\* The waits after a rate-limit failure on attempt 0 and on attempt 1: 2 s, 4 s.
ExpectedBackoffs == <<20, 40>>

\* C6: one get_embedding call asks the provider at most max_retries times; a
\* failure classified as rate limit on an attempt before the last is followed
\* by a wait of 2 * 2^attempt seconds and the next attempt; any other failure
\* is the last one of the call, which raises with no provider call after it.
C6_RetriesWithBackoff ==
  /\ emb.provider_calls <= max_retries
  /\ \A j \in 1..Len(emb.fails) :
       LET f == emb.fails[j]
       IN IF f.rate_limit /\ f.attempt < max_retries - 1
          THEN /\ j <= Len(emb.backoffs)
               /\ emb.backoffs[j] = ExpectedBackoffs[f.attempt + 1]
               /\ emb.attempt > f.attempt
          ELSE /\ j = Len(emb.fails)
               /\ emb.pc \in {"ge_raised", "goc_returned"}
               /\ emb.provider_calls = f.provider_calls

\* Three rate-limit answers of the provider in one call: two waits, then the raise.
C6_Witness ==
  /\ emb.pc = "ge_raised"
  /\ emb.provider_calls = max_retries
  /\ Len(emb.fails) = max_retries
  /\ emb.backoffs = ExpectedBackoffs

\* The call went past the cache test and the test of the cleaned text.
Generating == emb.n > 0 /\ ~emb.hit /\ ~emb.skipped

\* C7: a get_or_create_embedding call on the generation path that returns after
\* a failure returns None and leaves the embedding of the record unset; one that
\* returns after a success returns the vector the record and its row hold.
C7_FailureLeavesRecordUnset ==
  (Generating /\ emb.pc = "goc_returned") =>
    IF emb.cause = "none"
    THEN /\ emb.result # NoArray
         /\ get_embedding_array(transcript.embedding) = emb.result
         /\ row.embedding = transcript.embedding
    ELSE /\ emb.result = NoArray
         /\ transcript.embedding = NoEmbedding

\* C8: a call on a record that holds a vector returns that vector, asks the
\* provider nothing, reserves nothing, and leaves the record, its row and every
\* limiter as they were at the call.
C8_CacheHitChangesNothing ==
  (emb.n > 0 /\ emb.transcript0.embedding # NoEmbedding) =>
    /\ emb.pc = "goc_returned"
    /\ emb.result = NpArray(emb.transcript0.embedding.val)
    /\ emb.provider_calls = 0
    /\ emb.reserves = 0
    /\ transcript = emb.transcript0
    /\ row = emb.transcript0
    /\ limiters = emb.limiters0

\* A second call, on the record the first call stored a vector on, with the
\* limiter holding the reservation of the first call.
C8_Witness ==
  /\ emb.n = 2 /\ emb.hit /\ emb.pc = "goc_returned"
  /\ Len(limiters) = 1
  /\ limiters[1].request_history # <<>>

\* s is empty or holds whitespace only
Blank(s) == \A i \in 1..Len(s) : s[i] \in Whitespace

\* C9: a call on a record without vector whose cleaned text (the stored one or,
\* without a stored one, the cleaning of its content) is empty or whitespace
\* only returns None, asks the provider nothing and reserves nothing; for a
\* record with empty content, as the upload writes it, that is every record
\* whose stored cleaned text is None, empty or whitespace only.
C9_BlankTextReturnsNone ==
  LET tr == emb.transcript0
  IN (/\ emb.n > 0
      /\ tr.embedding = NoEmbedding
      /\ \/ Blank(CleanedOf(tr))
         \/ /\ tr.content = Str(<<>>)
            /\ tr.cleaned_content = NoStr \/ Blank(tr.cleaned_content[1]))
     => /\ emb.pc = "goc_returned"
        /\ emb.result = NoArray
        /\ emb.provider_calls = 0
        /\ emb.reserves = 0
        /\ limiters = emb.limiters0

\* A record without vector whose stored cleaned text is whitespace only.
C9_Witness ==
  /\ emb.pc = "goc_returned" /\ emb.skipped
  /\ emb.transcript0.embedding = NoEmbedding
  /\ emb.transcript0.cleaned_content = Str(<<" ", "\n">>)

\* ------------------------------------------------------------------------
\* Properties of get_embeddings_batch under SpecBatch.

\* C10: a chunk that fails on its last attempt does not end the call with a
\* raise: the call goes on with the following chunks.
C10_ExhaustedChunkDoesNotRaise ==
  bat.exhausted => bat.pc # "bat_raised"

\* C11: the provider is asked for the chunks at the offsets 0, 100, 200, ... in
\* that order (an offset again only for a retry of the same chunk), a chunk is
\* the at most 100 texts at its offset, and a call that returns gives one entry
\* per input text, entry k being the vector of text k.
C11_ChunksInOrderOneEntryPerText ==
  /\ Len(bat.chunk) <= BATCH_SIZE
  /\ bat.pc \in {"bat_reserve", "bat_provider", "bat_log"} =>
       bat.chunk = [k \in 1..Len(bat.chunk) |-> bat.texts[bat.i + k]]
  /\ \A j \in 1..Len(bat.requested) :
       IF j = 1 THEN bat.requested[j] = 0
       ELSE bat.requested[j] \in {bat.requested[j - 1], bat.requested[j - 1] + BATCH_SIZE}
  /\ bat.pc = "bat_returned" =>
       /\ Len(bat.all_embeddings) = Len(bat.texts)
       /\ \A k \in 1..Len(bat.texts) : bat.all_embeddings[k] = VectorOf(bat.texts[k])

\* The largest batch returned after three chunks, one of them retried.
C11_Witness ==
  /\ bat.pc = "bat_returned"
  /\ Len(bat.texts) = MaxBatch
  /\ Len(bat.requested) > 3

\* ------------------------------------------------------------------------
\* The place of entry i of the merged list in the returned order: behind the
\* entries of greater score and behind the earlier entries of equal score.
RankIn(list, i) ==
  1 + Cardinality({ j \in 1..Len(list) :
                      \/ ~RatLe(list[j].score, list[i].score)
                      \/ j < i /\ RatEq(list[j].score, list[i].score) })

Returned == hs.pc = "hs_returned"

\* The filenames of the corpus of the call, in database order.
CorpusFiles == [k \in 1..Len(hs.corpus) |-> hs.corpus[k].filename]

\* C12: hybrid_search returns the first limit entries of the merged set sorted
\* by score descending, entries of equal score in the order the fusion
\* inserted them: at most limit results, of non-increasing score; candidates
\* of similarity 0.9, 0.6, 0.95 at threshold 0.5 come back as 0.95, 0.9, 0.6.
C12_FirstLimitOfMergedSortedDescending ==
  Returned =>
    /\ Len(hs.results) = Min(hs.limit, Len(hs.combined))
    /\ Len(hs.results) <= hs.limit
    /\ \A i \in 1..Len(hs.combined) :
         RankIn(hs.combined, i) <= hs.limit
           => hs.results[RankIn(hs.combined, i)] = hs.combined[i]
    /\ \A k \in 1..(Len(hs.results) - 1) :
         RatLe(hs.results[k + 1].score, hs.results[k].score)
    /\ ( /\ CorpusFiles = <<"f1", "f2", "f3">>
         /\ emb.pc = "ge_returned" /\ emb.embedding = <<1, 0, 0, 0, 0>>
         /\ hs.limit = 3 )
       => /\ Len(hs.results) = 3
          /\ RatEq(hs.results[1].score, Rat(95, 100))
          /\ RatEq(hs.results[2].score, Rat(9, 10))
          /\ RatEq(hs.results[3].score, Rat(6, 10))

\* A call returned fewer entries than were merged, and the tie for the best
\* score was decided by the insertion order.
C12_Witness ==
  /\ Returned
  /\ Len(hs.combined) > hs.limit
  /\ \E i, j \in 1..Len(hs.combined) :
       /\ i < j
       /\ RatEq(hs.combined[i].score, hs.combined[j].score)
       /\ hs.results[1] = hs.combined[i]

\* The three candidates of the example came back in the order 0.95, 0.9, 0.6.
C12_ExampleReached ==
  /\ Returned
  /\ CorpusFiles = <<"f1", "f2", "f3">>
  /\ emb.pc = "ge_returned" /\ emb.embedding = <<1, 0, 0, 0, 0>>
  /\ hs.limit = 3

\* The entry of a result list for a filename, <<>> when it has none.
EntryFor(list, filename) ==
  SelectSeq(list, LAMBDA r : r.filename = filename)

\* C13: in the fusion a record found by both phases keeps its semantic score,
\* and a record found by the keyword phase alone gets exactly
\* max(0.85, keyword score): a keyword score of 1/3 is raised to 0.85.
C13_SemanticScoreKeptKeywordFloored ==
  Returned =>
    /\ \A k \in 1..Len(hs.combined) :
         LET c == hs.combined[k]
             sem == EntryFor(hs.semantic_results, c.filename)
             kw == EntryFor(hs.keyword_results, c.filename)
         IN IF sem # <<>>
            THEN c = sem[1]
            ELSE /\ kw # <<>>
                 /\ c.snippet = kw[1].snippet
                 /\ IF RatLe(kw[1].score, Rat(85, 100))
                    THEN RatEq(c.score, Rat(85, 100))
                    ELSE c.score = kw[1].score
    /\ \A k \in 1..Len(hs.semantic_results) :
         EntryFor(hs.combined, hs.semantic_results[k].filename) # <<>>
    /\ \A k \in 1..Len(hs.keyword_results) :
         EntryFor(hs.combined, hs.keyword_results[k].filename) # <<>>

\* One call merged a record of both phases whose two scores differ and a
\* keyword-only record of score 1/3.
C13_Witness ==
  /\ Returned
  /\ \E k \in 1..Len(hs.combined) :
       LET c == hs.combined[k]
           kw == EntryFor(hs.keyword_results, c.filename)
       IN /\ EntryFor(hs.semantic_results, c.filename) # <<>>
          /\ kw # <<>>
          /\ ~RatEq(kw[1].score, c.score)
  /\ \E k \in 1..Len(hs.combined) :
       LET c == hs.combined[k]
           kw == EntryFor(hs.keyword_results, c.filename)
       IN /\ EntryFor(hs.semantic_results, c.filename) = <<>>
          /\ RatEq(kw[1].score, Rat(1, 3))
          /\ RatEq(c.score, Rat(85, 100))

\* C14: for an empty or whitespace-only query hybrid_search returns the empty
\* list; the provider is not called and no capacity is reserved.
C14_BlankQueryReturnsEmptyWithoutProvider ==
  (hs.pc # "idle" /\ (hs.query = <<>> \/ \A k \in 1..Len(hs.query) : hs.query[k] \in Whitespace))
    => /\ hs.pc \in {"hs_keyword", "hs_fuse", "hs_returned"}
       /\ hs.pc = "hs_returned" => hs.results = <<>>
       /\ emb = EmbIdle
       /\ emb.provider_calls = 0 /\ emb.reserves = 0
       /\ limiters = <<>> /\ _rate_limiter = 0
       /\ session = <<>>

\* A call with a query of one blank returned.
C14_Witness ==
  /\ Returned
  /\ hs.query = <<" ">>
  /\ hs.corpus # <<>>
  /\ hs.results = <<>>

\* The query vector could not be obtained: get_embedding raised (it never
\* returns None).
NoQueryVector == hs.pc \notin {"idle", "hs_embedding"} /\ emb.pc = "ge_raised"

\* The keyword results of the call with their scores floored.
FlooredKeywordResults ==
  LET kw == keyword_search_enhanced(hs.corpus, hs.query, hs.limit)
  IN SortDesc([k \in 1..Len(kw) |-> [kw[k] EXCEPT !.score = Floored(@)]], <<>>)

\* C15: when the query vector cannot be obtained hybrid_search does not raise,
\* and its result is exactly the keyword records with floored scores.
C15_NoVectorFallsBackToKeywords ==
  NoQueryVector =>
    /\ hs.pc # "hs_raised"
    /\ Returned => hs.results = FlooredKeywordResults

\* The part of C15 for a failure of the provider alone, the session intact.
C15_ProviderFailureFallsBackToKeywords ==
  (NoQueryVector /\ session = <<>>) =>
    /\ hs.pc # "hs_raised"
    /\ Returned => hs.results = FlooredKeywordResults

\* A call whose provider failed returned keyword records.
C15_ProviderFailureReached ==
  /\ NoQueryVector /\ session = <<>> /\ Returned
  /\ hs.results # <<>>

\* The semantic phase of the call ran with the query vector emb.embedding.
Scanned == hs.pc \notin {"idle", "hs_embedding"} /\ emb.pc = "ge_returned"

\* The length of the vector stored for a record with embedding.
StoredLen(rec) == Len(get_embedding_array(rec.embedding).val)

\* The records of the corpus whose stored vector has the length of the query
\* vector.
SameLength ==
  SelectSeq(WithEmbedding(hs.corpus), LAMBDA rec : StoredLen(rec) = Len(emb.embedding))

\* C16: a record whose stored vector has another length than the query vector
\* is skipped by the scan: it is never a semantic result, the scan does not
\* raise and goes on with the records behind it, whose results are the ones
\* of the corpus without the skipped records.
C16_OtherLengthSkipped ==
  Scanned =>
    /\ hs.pc # "hs_raised"
    /\ \A k \in 1..Len(hs.corpus) :
         (hs.corpus[k].embedding # NoEmbedding
            /\ StoredLen(hs.corpus[k]) # Len(emb.embedding))
           => EntryFor(hs.semantic_results, hs.corpus[k].filename) = <<>>
    /\ LET found ==
             SortDesc(SelectSeq([k \in 1..Len(SameLength) |->
                                   Result(SameLength[k],
                                          cosine_similarity(emb.embedding,
                                            get_embedding_array(SameLength[k].embedding).val),
                                          get_snippet(CleanedContentOf(SameLength[k]),
                                                      hs.query, DefaultContextChars))],
                                LAMBDA r : RatLe(hs.threshold, r.score)), <<>>)
       IN hs.semantic_results = SubSeq(found, 1, Min(hs.limit * 2, Len(found)))

\* The scan met a vector of two entries first and found a record behind it.
C16_Witness ==
  /\ Scanned
  /\ Len(hs.corpus) >= 2
  /\ hs.corpus[1].embedding # NoEmbedding
  /\ StoredLen(hs.corpus[1]) = 2
  /\ Len(emb.embedding) = 5
  /\ hs.semantic_results # <<>>

\* The record of the corpus a result is for has a stored vector.
HasVector(filename) ==
  \A k \in 1..Len(hs.corpus) :
    hs.corpus[k].filename = filename => hs.corpus[k].embedding # NoEmbedding

C17_EmptyCorpusReached ==
  /\ Returned
  /\ ~BlankQuery(hs.query)
  /\ \A k \in 1..Len(hs.corpus) : hs.corpus[k].embedding = NoEmbedding

\* The keyword phase of the call ran.
KeywordDone == hs.pc \in {"hs_fuse", "hs_returned"} /\ QueryWords(hs.query) # <<>>

\* The record of the corpus with the filename.
RecordOf(filename) ==
  hs.corpus[CHOOSE k \in 1..Len(hs.corpus) : hs.corpus[k].filename = filename]

\* The number of distinct tokens of the query that occur in the lower-cased
\* cleaned text of the record.
DistinctMatches(rec) ==
  Cardinality({ w \in { QueryWords(hs.query)[k] : k \in 1..Len(QueryWords(hs.query)) } :
                  Contains(Lower(CleanedContentOf(rec)), w) })

\* C18: the keyword score of a record is the number of distinct query tokens
\* that occur in its text over the total number of query tokens, also for a
\* query that repeats a token.
C18_ScoreIsDistinctMatchesOverTokens ==
  KeywordDone =>
    \A k \in 1..Len(hs.keyword_results) :
      RatEq(hs.keyword_results[k].score,
            Rat(DistinctMatches(RecordOf(hs.keyword_results[k].filename)),
                Len(QueryWords(hs.query))))

\* The query of the call repeats no token.
NoRepeatedToken ==
  \A i, j \in 1..Len(QueryWords(hs.query)) :
    QueryWords(hs.query)[i] = QueryWords(hs.query)[j] => i = j

\* The rest of C18: for a query without repeated token the score is as
\* stated; for every query the records without match are left out and the
\* limit records of the highest score are returned.
C18_WithoutRepeatedToken ==
  KeywordDone =>
    /\ NoRepeatedToken =>
         \A k \in 1..Len(hs.keyword_results) :
           RatEq(hs.keyword_results[k].score,
                 Rat(DistinctMatches(RecordOf(hs.keyword_results[k].filename)),
                     Len(QueryWords(hs.query))))
    /\ Len(hs.keyword_results) <= hs.limit
    /\ \A k \in 1..Len(hs.keyword_results) :
         DistinctMatches(RecordOf(hs.keyword_results[k].filename)) > 0
    /\ \A k \in 1..Len(hs.corpus) :
         LET rec == hs.corpus[k]
             score == Rat(CountMatches(QueryWords(hs.query),
                                       Lower(CleanedContentOf(rec))),
                          Len(QueryWords(hs.query)))
         IN (rec.embedding # NoEmbedding /\ DistinctMatches(rec) > 0
               /\ EntryFor(hs.keyword_results, rec.filename) = <<>>)
              => /\ Len(hs.keyword_results) = hs.limit
                 /\ \A j \in 1..hs.limit : RatLe(score, hs.keyword_results[j].score)

\* ------------------------------------------------------------------------
\* Properties of the text functions under SpecText.

\* get_snippet was called with a query that occurs in the text, whatever the
\* case of the letters.
SnippetFound ==
  /\ pf.op = "get_snippet"
  /\ Contains(Lower(pf.text), Lower(pf.query))

\* The window rule of C19: the match with context_chars characters on each
\* side, fewer at an edge of the text, "..." in front iff the window starts
\* behind position 0 and "..." behind iff it ends before the end of the text.
WindowRule ==
  LET p == Find(Lower(pf.text), Lower(pf.query))
      rest == Len(pf.text) - p - Len(pf.query)
      left == Min(pf.context_chars, p)
      right == Min(pf.context_chars, rest)
  IN pf.result =
       (IF p > pf.context_chars THEN Ellipsis ELSE <<>>)
         \o SubSeq(pf.text, p - left + 1, p + Len(pf.query) + right)
         \o (IF rest > pf.context_chars THEN Ellipsis ELSE <<>>)

\* The call of the example: 'AAAAAAAAAA needle BBBBBBBBBB', 'needle', 5.
SnippetExample ==
  /\ pf.op = "get_snippet"
  /\ pf.text = Pad(10, "A") \o <<" ">> \o Needle \o <<" ">> \o Pad(10, "B")
  /\ pf.query = Needle
  /\ pf.context_chars = 5

\* C19: when the whole query occurs in the text get_snippet returns the window
\* of the rule; for the example the window is '...AAAA needle BBBB...', the
\* blank next to the match being one of the five characters of each side.
C19_WindowOfContextChars ==
  /\ SnippetFound => WindowRule
  /\ SnippetExample =>
       pf.result = Ellipsis \o Pad(4, "A") \o <<" ">> \o Needle
                     \o <<" ">> \o Pad(4, "B") \o Ellipsis

\* The call of the example was made.
C19_Witness ==
  /\ SnippetExample
  /\ SnippetFound
  /\ Len(pf.result) = 22

\* C19 as stated: the window of the rule, and '...AAAAA needle BBBBB...' for
\* the example.
C19_AsStated ==
  /\ SnippetFound => WindowRule
  /\ SnippetExample =>
       pf.result = Ellipsis \o Pad(5, "A") \o <<" ">> \o Needle
                     \o <<" ">> \o Pad(5, "B") \o Ellipsis

\* C20: clean_transcript is idempotent: cleaning a cleaned text gives the
\* cleaned text.
C20_CleanTwiceIsCleanOnce ==
  pf.op = "clean_transcript" => clean_transcript(Str(pf.result)) = pf.result

\* No line of the cleaned text ends in a blank.
NoTrailingBlank ==
  \A k \in 1..Len(SplitLines(pf.result, <<>>)) :
    Strip(SplitLines(pf.result, <<>>)[k]) = SplitLines(pf.result, <<>>)[k]

\* The part of C20 that holds: a cleaned text none of whose lines ends in a
\* blank is left as it is by a second cleaning.
C20_IdempotentWithoutTrailingBlank ==
  (pf.op = "clean_transcript" /\ NoTrailingBlank)
    => clean_transcript(Str(pf.result)) = pf.result

\* The lines of the raw text of the call, stripped.
InputLines ==
  LET lines == SplitLines(NormalizeNewlines(pf.text), <<>>)
  IN [k \in 1..Len(lines) |-> Strip(lines[k])]

\* The line contributes nothing: it is empty or holds the system marker or,
\* in any letter case, the end-of-call marker.
Dropped(line) ==
  \/ line = <<>>
  \/ Contains(line, SistemaMarker)
  \/ Contains(Upper(line), FinMarker)

\* The line has the shape '[HH:MM:SS] AGENTE|CLIENTE: content', the speaker
\* in any case.
SpeakerShape(line) ==
  /\ Len(line) >= 10
  /\ IsStamp(SubSeq(line, 1, 10))
  /\ \E sp \in Speakers : StartsWithSpeaker(LStrip(SubSeq(line, 11, Len(line))), sp)

\* What a retained line is emitted as: 'SPEAKER: content' with the redacted
\* content for a line of the speaker shape, the redacted line otherwise.
Emitted(line) ==
  IF SpeakerShape(line)
  THEN LET rest == LStrip(SubSeq(line, 11, Len(line)))
           sp == CHOOSE s \in Speakers : StartsWithSpeaker(rest, s)
       IN sp \o <<":", " ">>
            \o Strip(_sanitize_pii(LStrip(SubSeq(rest, Len(sp) + 2, Len(rest)))))
  ELSE _sanitize_pii(line)

\* C21: the output of clean_transcript is the newline-joined sequence, in
\* input order, of one line per retained input line: empty lines and lines
\* with the system or the end-of-call marker contribute nothing, a speaker
\* line is emitted as 'SPEAKER: content' without timestamp and with the
\* speaker in upper case, any other line as its redacted text.
C21_OneLinePerRetainedLine ==
  pf.op = "clean_transcript" =>
    LET retained == SelectSeq(InputLines, LAMBDA line : ~Dropped(line))
    IN pf.result = JoinLines([k \in 1..Len(retained) |-> Emitted(retained[k])])

\* A text of two lines was cleaned: the end-of-call marker in lower case and
\* a line of a speaker written in lower case.
C21_Witness ==
  /\ pf.op = "clean_transcript"
  /\ Len(InputLines) = 2
  /\ \E k \in 1..2 : Contains(InputLines[k], Lower(FinMarker))
  /\ \E k \in 1..2 :
       /\ SpeakerShape(InputLines[k])
       /\ Contains(InputLines[k], <<"c", "l", "i", "e", "n", "t", "e">>)
  /\ pf.result = <<"C", "L", "I", "E", "N", "T", "E", ":", " ", "o", "k">>

\* ------------------------------------------------------------------------
\* Properties of the upload under SpecUpload.

\* The embedding step of the upload is over and failed:
\* get_or_create_embedding returned None or raised.
EmbeddingStepFailed ==
  /\ up.pc \in {"up_classify", "up_final", "up_returned", "up_http500"}
  /\ up.notes # <<>>
  /\ up.notes[1] # "Embedding generado exitosamente"

\* The response of the upload says that the embedding step failed.
PartialSuccessResponse ==
  /\ ~up.embedding_generated
  /\ ~up.classification_done
  /\ ~up.classify_called
  /\ Len(up.notes) = 1

\* C22: an upload whose embedding step fails still completes, with
\* embedding_generated = false, classification_done = false and a note on the
\* failure; classification is attempted only when the embedding was generated
\* and stored.
C22_FailedEmbeddingStillCompletes ==
  /\ EmbeddingStepFailed =>
       /\ up.pc # "up_http500"
       /\ up.pc # "up_classify"
       /\ up.pc = "up_returned" => PartialSuccessResponse
  /\ up.pc # "idle" /\ up.classify_called =>
       up.embedding_generated /\ row.embedding # NoEmbedding

\* The part of C22 that holds: when the failed step leaves a usable session
\* (the provider failed, there was nothing to embed, or the handler of the
\* upload rolled the session back) the upload completes as stated, and
\* classification is attempted only with a stored embedding.
C22_CompletesWithUsableSession ==
  /\ (EmbeddingStepFailed /\ up.pc # "up_http500") =>
       /\ up.pc # "up_classify"
       /\ up.pc = "up_returned" => PartialSuccessResponse
  /\ up.pc # "idle" /\ up.classify_called =>
       up.embedding_generated /\ row.embedding # NoEmbedding

\* An upload whose provider failed returned its response, and one whose
\* get_or_create_embedding raised did.
C22_ProviderFailureReached ==
  /\ EmbeddingStepFailed /\ up.pc = "up_returned" /\ ~up.goc_raised
  /\ hs.pc = "idle" /\ emb.cleaned # <<>>

C22_RaiseReached ==
  /\ EmbeddingStepFailed /\ up.pc = "up_returned" /\ up.goc_raised

\* The upload answered with success and left its record, which has text to
\* embed, without vector.
LeftWithoutVector ==
  /\ up.pc = "up_returned"
  /\ ~up.embedding_generated
  /\ ~NothingToEmbed(CleanedOf(row))

\* C23: a record whose embedding was not generated at upload gets it at the
\* next search: when a hybrid_search call that follows the upload is over and
\* the provider answered it, get_or_create_embedding was called for the
\* record or the record holds a vector.
C23_NextSearchEmbedsTheRecord ==
  (LeftWithoutVector /\ hs.pc = "hs_returned" /\ emb.pc = "ge_returned")
    => \/ row.embedding # NoEmbedding
       \/ emb.transcript0 # <<>>

\* ------------------------------------------------------------------------
\* Properties of the limiter under SpecSerial.

\* The frame of a wait_for_capacity call that was admitted, of a record_usage
\* call that returned.
IsAdmission(f) == f.pc = "done" /\ f.adm_total >= 0
IsUsage(f) == f.pc = "done" /\ f.adm_total < 0

\* s after some of its head entries were removed.
IsSuffix(s, of) == \E k \in 0..Len(of) : s = SubSeq(of, k + 1, Len(of))

Front(s) == SubSeq(s, 1, Len(s) - 1)
Last(s) == s[Len(s)]

\* C24: the admission of a wait_for_capacity call adds one entry
\* (now, estimated_tokens) at the tail of token_history and one timestamp now at
\* the tail of request_history, after what pruning left of both; a
\* record_usage(n) call adds one entry (now, n) at the tail of token_history and
\* changes nothing else: every earlier entry stays, request_history stays. A
\* record_usage call right after an admission leaves the estimate and the
\* usage as the last two entries.
C24_OneEntryPerAdmissionAndPerUsage ==
  [][calls' = calls + 1 =>
       LET old == limiters[1]
           new == limiters'[1]
           f == th'[1]
       IN /\ IsAdmission(f) \/ IsUsage(f)
          /\ IsAdmission(f) =>
               /\ new.token_history # <<>> /\ new.request_history # <<>>
               /\ Last(new.token_history) = <<clock', f.est>>
               /\ Last(new.request_history) = clock'
               /\ IsSuffix(Front(new.token_history), old.token_history)
               /\ IsSuffix(Front(new.request_history), old.request_history)
          /\ IsUsage(f) =>
               /\ new.token_history = Append(old.token_history, <<clock, f.est>>)
               /\ new.request_history = old.request_history
               /\ clock' = clock
          /\ (IsUsage(f) /\ IsAdmission(th[1]) /\ ticks' = ticks) =>
               /\ Len(new.token_history) >= 2
               /\ Last(Front(new.token_history))[2] = th[1].est
               /\ Last(new.token_history)[2] = f.est
     ]_vars

\* A reservation that had to wait, then its usage: the history holds the
\* earlier reservation, this reservation and the usage.
C24_Witness ==
  /\ calls = 3
  /\ IsUsage(th[1])
  /\ Len(limiters[1].token_history) = 3
  /\ Len(limiters[1].request_history) = 2
  /\ limiters[1].token_history[2][1] > limiters[1].token_history[1][1]

\* The request_history entries of an instance within the 60 seconds up to now.
RequestsInWindow(lim, now) ==
  Cardinality({k \in 1..Len(lim.request_history) : lim.request_history[k] >= now - Window})

\* C26: a single caller calls wait_for_capacity one call after the other; at each
\* admission request_history holds at most requests_per_minute timestamps of the
\* trailing 60 seconds, the one of this admission included.
C26_RequestsInWindowWithinLimit ==
  IsAdmission(th[1]) =>
    RequestsInWindow(limiters[1], th[1].ct) <= limiters[1].requests_per_minute

\* An admission that found requests_per_minute requests, waited for the oldest
\* to leave the window and filled the window again.
C26_Witness ==
  /\ IsAdmission(th[1])
  /\ InSeq("req", th[1].susp)
  /\ RequestsInWindow(limiters[1], th[1].ct) = limiters[1].requests_per_minute

\* ------------------------------------------------------------------------
\* The comparison of the minute-token check, under Spec.

\* The call of thread t is about to compute total_tokens_last_minute and to
\* compare it; no other thread has called the limiter.
AloneAtTokenCheck(t) ==
  /\ At(t, "tok_check")
  /\ \A u \in Threads \ {t} : th[u] = IdleFrame

\* C25: when wait_for_capacity compares the minute-token sum plus the estimate
\* with tokens_per_minute, every entry the sum counts has a timestamp within the
\* 60 seconds before the comparison (here for a caller that is alone on the
\* limiter), also after a suspension in the request-count check.
C25_MinuteSumCountsOnlyTheWindow ==
  \A t \in Threads :
    AloneAtTokenCheck(t) =>
      SumTokens(Self(t).token_history) = TrailingSum(Self(t), clock)

\* What the code does keep: without a suspension in the request-count check
\* the sum of a caller that is alone counts the trailing 60 seconds only, and
\* after one request_history holds the trailing 60 seconds only.
C25_PrunedUnlessRequestWait ==
  \A t \in Threads :
    AloneAtTokenCheck(t) =>
      /\ ~InSeq("req", th[t].susp) =>
           SumTokens(Self(t).token_history) = TrailingSum(Self(t), clock)
      /\ \A k \in 1..Len(Self(t).request_history) :
           Self(t).request_history[k] >= clock - Window

C25_RequestWaitReached ==
  \E t \in Threads : AloneAtTokenCheck(t) /\ InSeq("req", th[t].susp)

\* ------------------------------------------------------------------------
\* Two callers on one limiter, under Spec.

\* The calls of t and u were both admitted, on the same instance, less than
\* 60 seconds apart, and neither suspended in any check.
BothAdmittedUnsuspended(t, u) ==
  /\ t # u
  /\ Admitted(t) /\ Admitted(u)
  /\ th[t].self = th[u].self
  /\ th[t].susp = <<>> /\ th[u].susp = <<>>
  /\ th[t].ct - th[u].ct < Window /\ th[u].ct - th[t].ct < Window

\* C27: two wait_for_capacity calls on one limiter whose estimates do not both
\* fit in tokens_per_minute are not both admitted within one window without a
\* suspension of one of them.
C27_NotBothAdmittedOnOneSnapshot ==
  \A t, u \in Threads :
    BothAdmittedUnsuspended(t, u) =>
      th[t].est + th[u].est <= limiters[th[t].self].tokens_per_minute

\* The same for a caller alone on the limiter (SpecSerial): an admission that
\* did not suspend found room for its estimate next to what the window held.
C27_SerialAdmissionsFit ==
  (IsAdmission(th[1]) /\ th[1].susp = <<>>) =>
    th[1].adm_total <= limiters[1].tokens_per_minute

\* ------------------------------------------------------------------------
\* Reservations of get_embedding, under SpecEmbed.

\* The histories of the limiter when the call started (empty when the limiter
\* did not exist yet) and what was added to them since.
TokensAtCall == IF emb.limiters0 = <<>> THEN <<>> ELSE emb.limiters0[1].token_history
RequestsAtCall == IF emb.limiters0 = <<>> THEN <<>> ELSE emb.limiters0[1].request_history
TokensSinceCall ==
  SubSeq(limiters[1].token_history, Len(TokensAtCall) + 1, Len(limiters[1].token_history))
RequestsSinceCall ==
  SubSeq(limiters[1].request_history, Len(RequestsAtCall) + 1,
         Len(limiters[1].request_history))

\* get_embedding is running or has run in the current call, and no entry has
\* left the window since the call started.
InGetEmbedding == Generating /\ emb.pc # "idle" /\ ticks = 0 /\ limiters # <<>>

\* get_embedding returned the vector.
GeSucceeded ==
  \/ emb.pc = "ge_returned"
  \/ emb.pc = "goc_returned" /\ emb.cause \notin {"provider", "log", "limiter"}

\* C28: in get_embedding the provider is called only right after a reservation
\* of the same attempt; the reservations of failed attempts stay: after k
\* provider calls the call has added k entries of estimated_tokens to
\* token_history and k timestamps to request_history (one more of each while
\* the provider call of the current attempt is pending), and the one entry of
\* record_usage follows them exactly when the call succeeded.
C28_OneReservationPerProviderCall ==
  InGetEmbedding =>
    /\ emb.reserves = emb.provider_calls + (IF emb.pc = "ge_provider" THEN 1 ELSE 0)
    /\ emb.reserves = emb.attempt + (IF emb.pc = "ge_reserve" THEN 0 ELSE 1)
    /\ limiters[1].token_history =
         TokensAtCall \o TokensSinceCall
    /\ Len(RequestsSinceCall) = emb.reserves
    /\ Len(TokensSinceCall) = emb.reserves + (IF GeSucceeded THEN 1 ELSE 0)
    /\ \A k \in 1..emb.reserves :
         /\ TokensSinceCall[k][2] = emb.estimated_tokens
         /\ TokensSinceCall[k][1] = RequestsSinceCall[k]
    /\ GeSucceeded => Last(TokensSinceCall)[2] = emb.tokens_used

\* A call whose first attempt failed with a rate-limit answer and whose second
\* attempt succeeded: two reservations and one usage entry.
C28_Witness ==
  /\ InGetEmbedding
  /\ emb.pc = "ge_returned"
  /\ emb.provider_calls = 2
  /\ Len(TokensSinceCall) = 3
  /\ Len(RequestsSinceCall) = 2

\* A call that raised after max_retries provider calls keeps its reservations.
C28_AllAttemptsFailedReached ==
  /\ InGetEmbedding
  /\ emb.pc = "ge_raised"
  /\ emb.provider_calls = max_retries
  /\ Len(TokensSinceCall) = max_retries

\* ------------------------------------------------------------------------
\* The order of the histories.
TokenTimesInOrder(lim) ==
  \A k \in 1..(Len(lim.token_history) - 1) :
    lim.token_history[k][1] <= lim.token_history[k + 1][1]

RequestTimesInOrder(lim) ==
  \A k \in 1..(Len(lim.request_history) - 1) :
    lim.request_history[k] <= lim.request_history[k + 1]

\* C29: in every reachable state, whatever the interleaving of the
\* wait_for_capacity and record_usage calls of the threads, the timestamps of
\* token_history and of request_history do not decrease from head to tail.
C29_HistoriesInTimeOrder ==
  \A i \in 1..Len(limiters) :
    TokenTimesInOrder(limiters[i]) /\ RequestTimesInOrder(limiters[i])

\* The order holds for the calls of a caller alone on the limiter (SpecSerial).
C29_SerialHistoriesInTimeOrder ==
  TokenTimesInOrder(limiters[1]) /\ RequestTimesInOrder(limiters[1])

\* ------------------------------------------------------------------------
\* The score of a similar record, under SpecSearch.

\* The similarity of a record of SameLength to the query vector.
SimilarityOf(rec) ==
  cosine_similarity(emb.embedding, get_embedding_array(rec.embedding).val)

\* C30: when the query vector was obtained, a record returned by hybrid_search
\* whose stored vector has the length of the query vector and a similarity of
\* at least the threshold has that similarity as its score, whatever the
\* number of such records and the limit.
C30_SimilarRecordReturnedWithSimilarity ==
  (Returned /\ Scanned) =>
    \A k \in 1..Len(hs.results) : \A j \in 1..Len(SameLength) :
      ( /\ SameLength[j].filename = hs.results[k].filename
        /\ RatLe(hs.threshold, SimilarityOf(SameLength[j])) )
        => RatEq(hs.results[k].score, SimilarityOf(SameLength[j]))

\* What the code keeps: the property for the calls in which at most 2 * limit
\* records reach the threshold.
C30_WithinTwiceTheLimit ==
  (Returned /\ Scanned) =>
    LET similar == SelectSeq(SameLength,
                             LAMBDA rec : RatLe(hs.threshold, SimilarityOf(rec)))
    IN Len(similar) <= 2 * hs.limit =>
         \A k \in 1..Len(hs.results) : \A j \in 1..Len(similar) :
           similar[j].filename = hs.results[k].filename
             => RatEq(hs.results[k].score, SimilarityOf(similar[j]))

\* Three records reach the threshold, limit is 1, and the record returned is
\* the least similar of them.
C30_CutRecordReturned ==
  /\ Returned /\ Scanned
  /\ CorpusFiles = <<"f2", "f8", "f9">>
  /\ hs.limit = 1
  /\ Len(hs.results) = 1
  /\ hs.results[1].filename = "f2"
  /\ RatEq(hs.results[1].score, KeywordFloor)

====
